---- MODULE Spec2Model ----
(***************************************************************************)
(* A model of the instance orchestration engine of                         *)
(* src/api/v1/providers/proxmox.py: the hypervisor's object store (the     *)
(* only persistent state), the worker processes calling the engine's      *)
(* operations, and the operations themselves, step by step at every       *)
(* hypervisor call where another worker may interleave.                    *)
(***************************************************************************)
EXTENDS Integers, Sequences, FiniteSets, TLC

VARIABLES
    cluster,    \* the hypervisor's objects: vmid -> object (or NoObject)
    pc,         \* each worker's position inside the operation it runs
    loc,        \* each worker's local variables of that operation
    held,       \* the Instance object each worker's caller holds (a read's result)
    outcome,    \* how each worker's last operation ended (return or exception)
    today,      \* datetime.date.today(), in days
    snippets,   \* the cloud-init snippet files on the nodes: the FQDNs that have them
    images,     \* the image files on the nodes: <<node, path>> -> "good" or "bad"
    wait,       \* the state of one wait primitive run on its own (SpecWait)
    uservm      \* the user-VM provider: the stored provision, the caller's UserVM

vars == <<cluster, pc, loc, held, outcome, today, snippets, images, wait, uservm>>

--------------------------------------------------------------------------
(* Bounds of the model *)

\* number of addresses of the allowed range that are not the gateway
PoolSize == 2
\* number of external ports of the configured port-forward range
NumPorts == 2
\* number of vmids the hypervisor can hand out
MaxVmid == 3
\* number of distinct values the three random MAC octets can take
MacSpace == 2
\* last day the calendar reaches
MaxDay == 1
\* latest second at which a wait primitive is called
MaxStart == 1
\* seconds a slow call to the hypervisor takes
SlowCall == 30

Workers == {"w1", "w2"}
Usernames == {"ocanty"}
Hostnames == {"web", "db"}
Nodes == {"leela"}
VmIds == 1..MaxVmid

--------------------------------------------------------------------------
(* Configuration (v1.config.config.proxmox) *)

LXC == "LXC"
VPS == "VPS"
Types == {LXC, VPS}

Running == "Running"
Stopped == "Stopped"

\* config.proxmox.network.base_fqdn
BaseFqdn == "cloud.example"
\* config.proxmox.network.vhosts.service_subdomain.base_domain
ServiceBaseDomain == "netsoc.co"
BlacklistedSubdomains == {"admin"}
\* config.proxmox.network.vhosts.user_domain
VerificationTxtName == "_netsoc"
AllowedAAAAA == {"84.39.234.52"}

\* config.proxmox.network.network: addresses are offsets from the network
\* address; the interface's own ip is the network address, as in the default
NetworkIp == 0
Gateway == NetworkIp + 1
\* network.hosts(): every address but the network and the broadcast address
NetworkHosts == 1..(PoolSize + 3)
\* config.proxmox.network.range: it starts at the gateway
AllowedRange == [first |-> Gateway, last |-> Gateway + PoolSize]
Vlan == 69

\* config.proxmox.network.port_forward.range
PortRangeFirst == 16384
PortRangeLast == PortRangeFirst + NumPorts - 1

--------------------------------------------------------------------------
(* Strings *)

EndsWith(s, suffix) ==
    /\ Len(s) >= Len(suffix)
    /\ SubSeq(s, Len(s) - Len(suffix) + 1, Len(s)) = suffix

\* str[:-n] for 0 < n <= len(str)
DropLast(s, n) == SubSeq(s, 1, Len(s) - n)

\* the position of the last "." of s, 0 when there is none
RECURSIVE LastDotFrom(_, _)
LastDotFrom(s, i) ==
    IF i = 0 THEN 0
    ELSE IF SubSeq(s, i, i) = "." THEN i
    ELSE LastDotFrom(s, i - 1)

LastDot(s) == LastDotFrom(s, Len(s))

\* s.split(".")[-1]
LastLabel(s) == SubSeq(s, LastDot(s) + 1, Len(s))

\* len(s.split("."))
RECURSIVE NumLabelsFrom(_, _)
NumLabelsFrom(s, i) ==
    IF i = 0 THEN 1
    ELSE (IF SubSeq(s, i, i) = "." THEN 1 ELSE 0) + NumLabelsFrom(s, i - 1)

NumLabels(s) == NumLabelsFrom(s, Len(s))

--------------------------------------------------------------------------
(* FQDNs *)

GetInstanceTypeBaseFqdn(type) ==
    IF type = LXC THEN "container." \o BaseFqdn ELSE "vps." \o BaseFqdn

GetInstanceFqdnForUsername(type, username, hostname) ==
    hostname \o "." \o username \o "." \o GetInstanceTypeBaseFqdn(type)

FancyName(type) == IF type = LXC THEN "container" ELSE "vps"

\* the vhost create_instance gives every new instance
DefaultVhost(type, username, hostname) ==
    hostname \o "-" \o username \o "-" \o FancyName(type) \o "." \o ServiceBaseDomain

--------------------------------------------------------------------------
(* DNS, as the engine's lookups see it *)

\* socket.getaddrinfo(domain, 80): the A/AAAA records, or a failed resolution
GetAddrInfo(domain) ==
    CASE domain = "blog.example.net" -> [failed |-> FALSE, records |-> {"84.39.234.52"}]
      [] domain = "shop.example.org" -> [failed |-> FALSE, records |-> {"84.39.234.52"}]
      [] domain = "evil.example.net" -> [failed |-> FALSE, records |-> {"6.6.6.6"}]
      [] domain = "blognetsoc.co" -> [failed |-> FALSE, records |-> {"84.39.234.52"}]
      [] OTHER -> [failed |-> TRUE, records |-> {}]

\* dns.resolver.resolve(name, 'TXT')
ResolveTxt(name) ==
    CASE name = "_netsoc.example.net" -> [status |-> "ok", values |-> {"ocanty"}]
      [] name = "_netsoc.example.org" -> [status |-> "nxdomain", values |-> {}]
      [] name = "_netsoc.blognetsoc.co" -> [status |-> "ok", values |-> {"ocanty"}]
      [] OTHER -> [status |-> "dnsexception", values |-> {}]

--------------------------------------------------------------------------
(* validate_domain *)

ValidateServiceSubdomain(domain) ==
    LET prefix == DropLast(domain, Len("." \o ServiceBaseDomain))
    IN  (IF NumLabels(prefix) # 1 THEN {"depth"} ELSE {})
        \cup (IF LastLabel(prefix) \in BlacklistedSubdomains THEN {"blacklisted"} ELSE {})

\* split[len(split)-2] + "." + split[len(split)-1]; with a single label the
\* index -1 names that label again
CustomBase(domain) ==
    IF NumLabels(domain) = 1 THEN domain \o "." \o domain
    ELSE LET rest == SubSeq(domain, 1, LastDot(domain) - 1)
         IN  LastLabel(rest) \o "." \o LastLabel(domain)

ValidateCustomDomain(username, domain) ==
    LET info == GetAddrInfo(domain)
        txt == ResolveTxt(VerificationTxtName \o "." \o CustomBase(domain))
    IN  (IF info.records = {} THEN {"no_a_aaaa"} ELSE {})
        \cup (IF info.records \subseteq AllowedAAAAA THEN {} ELSE {"unknown_a_aaaa"})
        \cup (CASE txt.status = "ok" ->
                      IF username \in txt.values THEN {} ELSE {"txt_not_set"}
                [] txt.status = "nxdomain" -> {"txt_nxdomain"}
                [] OTHER -> {"txt_lookup"})

\* (valid, remarks), or the exception the call ends with: when getaddrinfo
\* fails, info_list is read without ever having been assigned
ValidateDomain(username, domain) ==
    IF EndsWith(domain, "." \o ServiceBaseDomain)
    THEN LET remarks == ValidateServiceSubdomain(domain)
         IN  [raised |-> "", valid |-> remarks = {}, remarks |-> remarks]
    ELSE IF GetAddrInfo(domain).failed
    THEN [raised |-> "UnboundLocalError", valid |-> FALSE, remarks |-> {"resolve"}]
    ELSE LET remarks == ValidateCustomDomain(username, domain)
         IN  [raised |-> "", valid |-> remarks = {}, remarks |-> remarks]

--------------------------------------------------------------------------
(* Metadata, descriptions, objects *)

NoRootUser == "none"

NICAllocation(ip, mac) ==
    [addresses |-> <<ip>>, gateway4 |-> Gateway, macaddress |-> mac, vlan |-> Vlan]

VHostOptions(port, https) == [port |-> port, https |-> https]

\* models.proxmox.Metadata as create_instance builds it
NewMetadata(owner, groups, nic, vhosts, rootUser, day) ==
    [owner |-> owner,
     groups |-> groups,
     inactivity |-> [marked_active_at |-> day],
     network |-> [nic_allocation |-> nic, vhosts |-> vhosts, ports |-> <<>>],
     root_user |-> rootUser,
     permanent |-> FALSE,
     tos |-> [suspended |-> FALSE]]

NullMetadata == NewMetadata("", {}, NICAllocation(0, 0), <<>>, NoRootUser, 0)

\* the prefix length of config.proxmox.network.network
NetworkPrefixLen == 16

\* a set as the list json() writes for it
RECURSIVE ListOf(_)
ListOf(S) ==
    IF S = {} THEN <<>>
    ELSE LET x == CHOOSE x \in S : TRUE IN <<x>> \o ListOf(S \ {x})

\* str(IPv4Interface)
InterfaceString(ip) == ToString(ip) \o "/" \o ToString(NetworkPrefixLen)

\* a description whose ports keep the last key only
MetadataJsonLastPort(metadata) ==
    LET ports == metadata.network.ports
        last == {e \in DOMAIN ports : \A x \in DOMAIN ports : x <= e}
    IN  [owner |-> metadata.owner,
         groups |-> ListOf(metadata.groups),
         inactivity |-> [marked_active_at |-> ToString(metadata.inactivity.marked_active_at)],
         network |->
            [nic_allocation |->
                [addresses |-> [i \in DOMAIN metadata.network.nic_allocation.addresses |->
                                   InterfaceString(metadata.network.nic_allocation.addresses[i])],
                 gateway4 |-> ToString(metadata.network.nic_allocation.gateway4),
                 macaddress |-> metadata.network.nic_allocation.macaddress,
                 vlan |-> metadata.network.nic_allocation.vlan],
             vhosts |-> metadata.network.vhosts,
             ports |-> [k \in {ToString(e) : e \in last} |->
                           ports[CHOOSE e \in last : ToString(e) = k]]],
         root_user |-> metadata.root_user,
         permanent |-> metadata.permanent,
         tos |-> metadata.tos]

\* yaml.safe_load(metadata.json()): the sets are lists, the date and the
\* addresses are strings, and the keys of ports are strings
MetadataJson(metadata) ==
    LET ports == metadata.network.ports
    IN  [owner |-> metadata.owner,
         groups |-> ListOf(metadata.groups),
         inactivity |-> [marked_active_at |-> ToString(metadata.inactivity.marked_active_at)],
         network |->
            [nic_allocation |->
                [addresses |-> [i \in DOMAIN metadata.network.nic_allocation.addresses |->
                                   InterfaceString(metadata.network.nic_allocation.addresses[i])],
                 gateway4 |-> ToString(metadata.network.nic_allocation.gateway4),
                 macaddress |-> metadata.network.nic_allocation.macaddress,
                 vlan |-> metadata.network.nic_allocation.vlan],
             vhosts |-> metadata.network.vhosts,
             ports |-> [k \in {ToString(e) : e \in DOMAIN ports} |->
                           ports[CHOOSE e \in DOMAIN ports : ToString(e) = k]]],
         root_user |-> metadata.root_user,
         permanent |-> metadata.permanent,
         tos |-> metadata.tos]

\* the description field: the YAML document of a Metadata, or text that is
\* not one; safe_dump writes the loaded JSON back as it is, a string that
\* reads as a number or a date in quotes
SerializeMetadata(metadata) == [yaml |-> TRUE, doc |-> MetadataJson(metadata)]

GarbageDescription == [yaml |-> FALSE, doc |-> MetadataJson(NullMetadata)]

Digit(c) ==
    CASE c = "0" -> 0 [] c = "1" -> 1 [] c = "2" -> 2 [] c = "3" -> 3 [] c = "4" -> 4
      [] c = "5" -> 5 [] c = "6" -> 6 [] c = "7" -> 7 [] c = "8" -> 8 [] c = "9" -> 9

RECURSIVE ParseDigits(_, _)
ParseDigits(s, i) ==
    IF i = 0 THEN 0 ELSE 10 * ParseDigits(s, i - 1) + Digit(SubSeq(s, i, i))

\* the integer a string of digits, with or without a sign, is coerced to
ParseInt(s) ==
    IF SubSeq(s, 1, 1) = "-" THEN 0 - ParseDigits(SubSeq(s, 2, Len(s)), Len(s) - 1)
    ELSE ParseDigits(s, Len(s))

\* the position of the "/" of an interface string
RECURSIVE SlashFrom(_, _)
SlashFrom(s, i) ==
    IF i > Len(s) \/ SubSeq(s, i, i) = "/" THEN i ELSE SlashFrom(s, i + 1)

\* IPv4Interface(s).ip
ParseInterface(s) == ParseInt(SubSeq(s, 1, SlashFrom(s, 1) - 1))

\* Metadata.parse_obj: every field coerced to its declared type
ParseObj(doc) ==
    [owner |-> doc.owner,
     groups |-> {doc.groups[i] : i \in DOMAIN doc.groups},
     inactivity |-> [marked_active_at |-> ParseInt(doc.inactivity.marked_active_at)],
     network |->
        [nic_allocation |->
            [addresses |-> [i \in DOMAIN doc.network.nic_allocation.addresses |->
                               ParseInterface(doc.network.nic_allocation.addresses[i])],
             gateway4 |-> ParseInt(doc.network.nic_allocation.gateway4),
             macaddress |-> doc.network.nic_allocation.macaddress,
             vlan |-> doc.network.nic_allocation.vlan],
         vhosts |-> doc.network.vhosts,
         ports |-> [e \in {ParseInt(k) : k \in DOMAIN doc.network.ports} |->
                       doc.network.ports[CHOOSE k \in DOMAIN doc.network.ports :
                                            ParseInt(k) = e]]],
     root_user |-> doc.root_user,
     permanent |-> doc.permanent,
     tos |-> doc.tos]

\* Metadata.parse_obj(yaml.safe_load(description))
ParseMetadata(description) ==
    IF description.yaml THEN [ok |-> TRUE, metadata |-> ParseObj(description.doc)]
    ELSE [ok |-> FALSE, metadata |-> NullMetadata]

\* one object of the hypervisor, as its config, status and firewall show it
Object(type, name, node, description) ==
    [type |-> type, name |-> name, node |-> node, description |-> description,
     status |-> "stopped", lock |-> FALSE, features |-> FALSE, resized |-> FALSE,
     net0 |-> NICAllocation(0, 0), firewall |-> FALSE,
     cloudinit |-> FALSE, ipset |-> <<>>,
     guest_root |-> [password |-> NoRootUser, ssh_key |-> NoRootUser]]

NoObject == [Object("none", "", "", GarbageDescription) EXCEPT !.status = "none"]

Exists(cl, vmid) == cl[vmid].type # "none"

EntryType(type) == IF type = LXC THEN "lxc" ELSE "qemu"

--------------------------------------------------------------------------
(* Reads *)

InactivityShutdownNumDays(type) == IF type = LXC THEN 90 ELSE 60

NoInstance ==
    [type |-> "none", id |-> 0, fqdn |-> "", hostname |-> "", node |-> "",
     metadata |-> NullMetadata, status |-> "none", active |-> FALSE, remarks |-> {}]

Raise(e) == [raised |-> e, instance |-> NoInstance]

Return(instance) == [raised |-> "", instance |-> instance]

\* the remarks of every vhost that does not validate
VhostRemarks(metadata) ==
    UNION {ValidateDomain(metadata.owner, v).remarks : v \in DOMAIN metadata.network.vhosts}

\* an activity in which permanent is applied after the suspension
IsActivePermanentLast(type, metadata, day) ==
    LET inPeriod == InactivityShutdownNumDays(type) > day - metadata.inactivity.marked_active_at
        orSuspended == IF metadata.tos.suspended THEN FALSE ELSE inPeriod
    IN  IF metadata.permanent THEN TRUE ELSE orSuspended

IsActive(type, metadata, day) ==
    LET inPeriod == InactivityShutdownNumDays(type) > day - metadata.inactivity.marked_active_at
        orPermanent == IF metadata.permanent THEN TRUE ELSE inPeriod
    IN  IF metadata.tos.suspended THEN FALSE ELSE orPermanent

\* a reader that returns the instance whatever its name
ReadInstanceOnNodeAnyName(cl, type, vmid, day) ==
    IF ~Exists(cl, vmid) \/ cl[vmid].type # EntryType(type)
    THEN Raise("NotFound")
    ELSE LET o == cl[vmid]
             parsed == ParseMetadata(o.description)
             suffix == GetInstanceFqdnForUsername(type, parsed.metadata.owner, "")
         IN  IF ~parsed.ok THEN Raise("Unavailable")
             ELSE Return([type |-> type, id |-> vmid, fqdn |-> o.name,
                          hostname |-> DropLast(o.name, Len(suffix)),
                          node |-> o.node, metadata |-> parsed.metadata,
                          status |-> IF o.status = "running" THEN Running ELSE Stopped,
                          active |-> IsActive(type, parsed.metadata, day),
                          remarks |-> VhostRemarks(parsed.metadata)])

\* _read_instance_on_node (expected_fqdn is never passed)
ReadInstanceOnNode(cl, type, vmid, day) ==
    IF ~Exists(cl, vmid) \/ cl[vmid].type # EntryType(type)
    THEN Raise("NotFound")
    ELSE LET o == cl[vmid]
             parsed == ParseMetadata(o.description)
             metadata == parsed.metadata
             suffix == GetInstanceFqdnForUsername(type, metadata.owner, "")
         IN  IF ~parsed.ok THEN Raise("Unavailable")
             ELSE IF ~EndsWith(o.name, suffix)
             THEN Raise(IF type = LXC THEN "NameError" ELSE "Unavailable")
             ELSE IF o.status \notin {"running", "stopped"}
             THEN Raise("UnboundLocalError")
             ELSE IF \E v \in DOMAIN metadata.network.vhosts :
                        ValidateDomain(metadata.owner, v).raised # ""
             THEN Raise("UnboundLocalError")
             ELSE Return([type |-> type,
                          id |-> vmid,
                          fqdn |-> o.name,
                          hostname |-> DropLast(o.name, Len(suffix)),
                          node |-> o.node,
                          metadata |-> metadata,
                          status |-> IF o.status = "running" THEN Running ELSE Stopped,
                          active |-> IsActive(type, metadata, day),
                          remarks |-> VhostRemarks(metadata)])

\* prox.cluster.resources.get(type="vm"): the objects, in vmid order
ClusterResources(cl) == {v \in VmIds : Exists(cl, v)}

\* the first entry of the listing named fqdn, 0 when there is none
FirstNamed(cl, fqdn) ==
    LET named == {v \in ClusterResources(cl) : cl[v].name = fqdn}
    IN  IF named = {} THEN 0 ELSE CHOOSE v \in named : \A u \in named : v <= u

\* a lookup by FQDN that never finds anything
ReadInstanceByFqdnFindsNothing(cl, type, fqdn, day) == Raise("NotFound")

\* _read_instance_by_fqdn
ReadInstanceByFqdn(cl, type, fqdn, day) ==
    IF FirstNamed(cl, fqdn) = 0 THEN Raise("NotFound")
    ELSE ReadInstanceOnNode(cl, type, FirstNamed(cl, fqdn), day)

\* the type read_instances reads an entry as, "" when it skips the entry
ScanType(o) ==
    IF o.type = "qemu" /\ EndsWith(o.name, GetInstanceTypeBaseFqdn(VPS)) THEN VPS
    ELSE IF o.type = "lxc" /\ EndsWith(o.name, GetInstanceTypeBaseFqdn(LXC)) THEN LXC
    ELSE ""

\* the entries read_instances(ignore_errors=True) reads without an exception
Readable(cl, day) ==
    {v \in ClusterResources(cl) :
        /\ ScanType(cl[v]) # ""
        /\ ReadInstanceOnNode(cl, ScanType(cl[v]), v, day).raised = ""}

\* read_instances(ignore_errors=True), as the sequence of its items: a dict
\* keeps a key where it was first inserted and the value last stored under it
RECURSIVE ReadInstancesFrom(_, _, _, _)
ReadInstancesFrom(cl, day, readable, v) ==
    IF v > MaxVmid THEN <<>>
    ELSE LET rest == ReadInstancesFrom(cl, day, readable, v + 1)
         IN  IF v \notin readable THEN rest
             ELSE LET later == {u \in readable : u > v /\ cl[u].name = cl[v].name}
                      last == IF later = {} THEN v
                              ELSE CHOOSE u \in later : \A x \in later : x <= u
                      earlier == {u \in readable : u < v /\ cl[u].name = cl[v].name}
                  IN  IF earlier # {} THEN rest
                      ELSE <<ReadInstanceOnNode(cl, ScanType(cl[last]), last, day).instance>>
                           \o rest

ReadInstances(cl, day) == ReadInstancesFrom(cl, day, Readable(cl, day), 1)

--------------------------------------------------------------------------
(* Allocators *)

\* the addresses of the allowed range, whoever holds them
AvailableIpsUnscanned(cl, day) ==
    (NetworkHosts \cap (AllowedRange.first..AllowedRange.last)) \ {Gateway}

\* the addresses _allocate_nic may hand out, given the cluster it scans
AvailableIps(cl, day) ==
    LET allowed == AllowedRange.first..AllowedRange.last
        instances == ReadInstances(cl, day)
    IN  ((NetworkHosts \cap allowed) \ {Gateway})
          \ {instances[i].metadata.network.nic_allocation.addresses[1] :
                i \in 1..Len(instances)}

\* random.randint(0, 255), three times
RandomMacs == 1..MacSpace

\* _hash_fqdn: an id drawn from the FQDN alone
HashFqdn(fqdn) == (Len(fqdn) % MaxVmid) + 1

\* get_port_forward_map: instances in scan order, the first holder of an
\* in-range external port wins
InPortRange(external) == ~(PortRangeFirst > external \/ external > PortRangeLast)

\* a map in which the last holder of an external port wins
RECURSIVE PortMapLastWins(_, _)
PortMapLastWins(instances, i) ==
    IF i = 0 THEN <<>>
    ELSE LET before == PortMapLastWins(instances, i - 1)
             inst == instances[i]
             ports == inst.metadata.network.ports
             fresh == {e \in DOMAIN ports : InPortRange(e)}
         IN  [e \in DOMAIN before \cup fresh |->
                IF e \notin fresh THEN before[e]
                ELSE [fqdn |-> inst.fqdn,
                      ip |-> inst.metadata.network.nic_allocation.addresses[1],
                      internal |-> ports[e]]]

RECURSIVE PortMapFrom(_, _)
PortMapFrom(instances, i) ==
    IF i = 0 THEN <<>>
    ELSE LET before == PortMapFrom(instances, i - 1)
             inst == instances[i]
             ports == inst.metadata.network.ports
             fresh == {e \in DOMAIN ports : e \notin DOMAIN before /\ InPortRange(e)}
         IN  [e \in DOMAIN before \cup fresh |->
                IF e \in DOMAIN before THEN before[e]
                ELSE [fqdn |-> inst.fqdn,
                      ip |-> inst.metadata.network.nic_allocation.addresses[1],
                      internal |-> ports[e]]]

GetPortForwardMap(cl, day) ==
    PortMapFrom(ReadInstances(cl, day), Len(ReadInstances(cl, day)))

\* is_domain_available
IsDomainAvailable(cl, day, domain) ==
    LET instances == ReadInstances(cl, day)
    IN  \A i \in 1..Len(instances) :
            \A vhost \in DOMAIN instances[i].metadata.network.vhosts :
                ~(ValidateDomain(instances[i].metadata.owner, vhost).valid /\ domain = vhost)

--------------------------------------------------------------------------
(* Workers *)

NoLoc ==
    [type |-> "", username |-> "", hostname |-> "", fqdn |-> "", node |-> "",
     metadata |-> NullMetadata, root_user |-> NoRootUser, supplied |-> FALSE,
     vm_id |-> 0, polled |-> FALSE]

NoOutcome == [op |-> "", raised |-> "", returned |-> <<>>]

\* the operation of worker w ends: it returns (raised = "") or raises, and
\* the caller lets go of the instance it had read
Finish(w, op, raised, returned) ==
    /\ pc' = [pc EXCEPT ![w] = "idle"]
    /\ loc' = [loc EXCEPT ![w] = NoLoc]
    /\ held' = [held EXCEPT ![w] = NoInstance]
    /\ outcome' = [outcome EXCEPT ![w] = [op |-> op, raised |-> raised, returned |-> returned]]

\* worker w moves on inside its operation
Goto(w, label, locals) ==
    /\ pc' = [pc EXCEPT ![w] = label]
    /\ loc' = [loc EXCEPT ![w] = locals]
    /\ held' = held
    /\ outcome' = [outcome EXCEPT ![w] = NoOutcome]

\* _generate_instance_root_user: fresh credentials
GenerateInstanceRootUser(op) ==
    [password |-> "password-" \o op,
     private_key |-> "private-key-" \o op,
     root_user |-> "root-user-" \o op]

\* a root user the caller of reset_instance_root_user passes in
SuppliedRootUser == "root-user-supplied"

TypeGroups(type) ==
    IF type = LXC THEN {"cloud_lxc", "cloud_instance"} ELSE {"cloud_vps", "cloud_instance"}

--------------------------------------------------------------------------
(* The hypervisor *)

FreeVmids(cl) == {v \in VmIds : ~Exists(cl, v)}

\* the vmid a create with the candidate id ends with: the candidate when it
\* is free; on a collision the hypervisor refuses (0) or hands out a later id
AssignVmid(cl, candidate) ==
    IF candidate \in FreeVmids(cl) THEN {candidate}
    ELSE {0} \cup {v \in FreeVmids(cl) : \A u \in FreeVmids(cl) : u > candidate => v <= u}

\* a lock the hypervisor took for a running task is released when the task ends
HypervisorUnlock(v) ==
    /\ Exists(cluster, v)
    /\ cluster[v].lock
    /\ cluster' = [cluster EXCEPT ![v].lock = FALSE]
    /\ UNCHANGED <<pc, loc, held, outcome, today, snippets, images, wait, uservm>>

\* the description of an instance is edited outside the engine into text
\* that is no Metadata document
DescriptionEdited(v) ==
    /\ Exists(cluster, v)
    /\ cluster[v].description.yaml
    /\ cluster' = [cluster EXCEPT ![v].description = GarbageDescription]
    /\ UNCHANGED <<pc, loc, held, outcome, today, snippets, images, wait, uservm>>

--------------------------------------------------------------------------
(* create_instance *)

\* get_image, then the existence check through read_instance_by_account
CreateBegin(w, type, username, hostname) ==
    /\ pc[w] = "idle"
    /\ LET fqdn == GetInstanceFqdnForUsername(type, username, hostname)
           existing == ReadInstanceByFqdn(cluster, type, fqdn, today)
       IN  CASE existing.raised = "" ->
                    Finish(w, "create_instance", "AlreadyExists", <<>>)
             [] existing.raised = "NotFound" ->
                    Goto(w, "create_image",
                         [NoLoc EXCEPT !.type = type, !.username = username,
                                       !.hostname = hostname, !.fqdn = fqdn])
             [] OTHER ->
                    Finish(w, "create_instance", existing.raised, <<>>)
    /\ UNCHANGED <<cluster, today, snippets, images, wait, uservm>>

\* models.proxmox.Image.DiskFormat
TarGZ == "tar_gz"

QCOW2 == "qcow2"

\* an entry of config.proxmox.lxc.images or config.proxmox.vps.images: the
\* catalogue it is in, and whether it names a checksum and a fallback URL
Image(catalogue, format, sha256sum, url) ==
    [catalogue |-> catalogue,
     disk_format |-> format,
     disk_file |-> FancyName(catalogue) \o "." \o format,
     disk_sha256sum |-> sha256sum,
     disk_file_fallback_url |-> url]

\* the image of the right format, with a checksum and a fallback URL
DefaultImage(type) == Image(type, IF type = LXC THEN TarGZ ELSE QCOW2, "sha256", "url")

\* every image a catalogue may hold
AllImages ==
    {Image(type, format, sha256sum, url) :
        type \in Types, format \in {TarGZ, QCOW2},
        sha256sum \in {"None", "sha256"}, url \in {"None", "url"}}

\* images_dir of create_instance
ImagesDir(type) ==
    IF type = LXC THEN "/var/lib/vz/template/cache" ELSE "/var/lib/vz/template/qemu"

\* how the commands of _ensure_image_present end on the node: the exit
\* status of mkdir and of wget, whether the payload wget fetched has the
\* catalogue's checksum, and the replace: 0, or rm failed (1), or rm went
\* through and mv failed (2). Every command goes well, or one of them fails
OkEnv == [mkdir |-> 0, wget |-> 0, payload |-> "good", replace |-> 0]

ImageEnvs ==
    {OkEnv, [OkEnv EXCEPT !.mkdir = 1], [OkEnv EXCEPT !.wget = 1],
     [OkEnv EXCEPT !.payload = "bad"], [OkEnv EXCEPT !.replace = 1],
     [OkEnv EXCEPT !.replace = 2]}

\* the files without the one at key
WithoutFile(files, key) ==
    IF DOMAIN files \ {key} = {} THEN <<>>
    ELSE [k \in DOMAIN files \ {key} |-> files[k]]

\* the files with content at key
WithFile(files, key, content) ==
    [k \in DOMAIN files \cup {key} |-> IF k = key THEN content ELSE files[k]]

\* download_path: one name for each worker process
DownloadPath(folder) == folder \o "/host-pid"

\* a variant that fetches the image whether or not the file is there
EnsureImagePresentAlways(files, node, image, folder, env) ==
    LET path == folder \o "/" \o image.disk_file
        fetched == WithFile(files, <<node, DownloadPath(folder)>>, env.payload)
    IN  [raised |-> "", path |-> path,
         files |-> WithFile(WithoutFile(fetched, <<node, DownloadPath(folder)>>),
                            <<node, path>>, env.payload),
         downloaded |-> TRUE]

\* a variant that takes the payload as it comes
EnsureImagePresentUnverified(files, node, image, folder, env) ==
    LET path == folder \o "/" \o image.disk_file
    IN  IF <<node, path>> \in DOMAIN files
        THEN [raised |-> "", path |-> path, files |-> files, downloaded |-> FALSE]
        ELSE [raised |-> "", path |-> path,
              files |-> WithFile(files, <<node, path>>, env.payload),
              downloaded |-> TRUE]

\* _ensure_image_present: the exception or the path returned, the files it
\* leaves on the node, and whether wget was issued. wget writes to
\* download_path, and nothing removes that file when a later step fails. The
\* checksum test after the download has no guard for an image without
\* checksum: None in str(...) is a TypeError
EnsureImagePresent(files, node, image, folder, env) ==
    LET path == folder \o "/" \o image.disk_file
        key == <<node, path>>
        download == <<node, DownloadPath(folder)>>
        passes == /\ key \in DOMAIN files
                  /\ image.disk_sha256sum = "None" \/ files[key] = "good"
        fetched == WithFile(files, download, env.payload)
        Ends(raised, after, downloaded) ==
            [raised |-> raised, path |-> IF raised = "" THEN path ELSE "",
             files |-> after, downloaded |-> downloaded]
    IN  IF env.mkdir # 0 THEN Ends("Unavailable", files, FALSE)
        ELSE IF passes THEN Ends("", files, FALSE)
        ELSE IF image.disk_file_fallback_url = "None" THEN Ends("Unavailable", files, FALSE)
        ELSE IF env.wget # 0
        THEN Ends("Unavailable", WithFile(files, download, "partial"), TRUE)
        ELSE IF image.disk_sha256sum = "None" THEN Ends("TypeError", fetched, TRUE)
        ELSE IF env.payload # "good" THEN Ends("Unavailable", fetched, TRUE)
        ELSE IF env.replace = 1 THEN Ends("Unavailable", fetched, TRUE)
        ELSE IF env.replace = 2 THEN Ends("Unavailable", WithoutFile(fetched, key), TRUE)
        ELSE Ends("", WithFile(WithoutFile(fetched, download), key, "good"), TRUE)

\* the disk format test of create_instance; the message of its raise names
\* detail, which is not a name of the function, so a NameError leaves it
FormatFits(type, image) ==
    IF type = LXC THEN image.disk_format = TarGZ ELSE image.disk_format = QCOW2

\* the node _select_best_node gave, the disk format check and
\* _ensure_image_present
CreateImage(w, node, image, env) ==
    /\ pc[w] = "create_image"
    /\ image.catalogue = loc[w].type
    /\ IF ~FormatFits(loc[w].type, image)
       THEN /\ Finish(w, "create_instance", "NameError", <<>>)
            /\ images' = images
       ELSE LET ensured == EnsureImagePresent(images, node, image, ImagesDir(loc[w].type), env)
            IN  /\ images' = ensured.files
                /\ IF ensured.raised = ""
                   THEN Goto(w, "create_nic", [loc[w] EXCEPT !.node = node])
                   ELSE Finish(w, "create_instance", ensured.raised, <<>>)
    /\ UNCHANGED <<cluster, today, snippets, wait, uservm>>

\* _allocate_nic: a cluster scan, then any address left and random MAC
\* octets; the raise of the empty pool names a module that does not exist
\* (exception.resource), so what leaves the call is a NameError
AllocateNic(cl, day) ==
    LET ips == AvailableIps(cl, day)
    IN  IF ips = {} THEN [raised |-> "NameError", nics |-> {}]
        ELSE [raised |-> "",
              nics |-> {NICAllocation(ip, mac) : ip \in ips, mac \in RandomMacs}]

\* next(iter(ips)) takes the element the set's hash order puts first: any
\* of them, the lowest when that order happens to be the sorted one
FirstOf(nics, order) ==
    IF order = "sorted"
    THEN {n \in nics : \A m \in nics : n.addresses[1] <= m.addresses[1]}
    ELSE nics

\* _generate_instance_root_user and the Metadata with its _allocate_nic
CreateNic(w, macs, order) ==
    /\ pc[w] = "create_nic"
    /\ LET allocated == AllocateNic(cluster, today)
           root == GenerateInstanceRootUser("create").root_user
           vhosts == [d \in {DefaultVhost(loc[w].type, loc[w].username, loc[w].hostname)}
                        |-> VHostOptions(80, FALSE)]
       IN  IF allocated.raised # ""
           THEN Finish(w, "create_instance", allocated.raised, <<>>)
           ELSE \E nic \in FirstOf(allocated.nics, order) :
                   /\ nic.macaddress \in macs
                   /\ Goto(w, "create_post",
                           [loc[w] EXCEPT !.root_user = root,
                                          !.metadata =
                                             NewMetadata(loc[w].username,
                                                         TypeGroups(loc[w].type),
                                                         nic, vhosts, root, today)])
    /\ UNCHANGED <<cluster, today, snippets, images, wait, uservm>>

\* time.time() makes the stub's name unique; here the id the hypervisor
\* assigns does
StubVmName(fqdn, w, vmid) == "stub-" \o fqdn \o "-" \o w \o "-" \o ToString(vmid)

\* the POST that creates the container, or the stub VM and the listing that
\* finds the stub's id by its name
CreatePost(w, locked) ==
    /\ pc[w] = "create_post"
    /\ \E vmid \in AssignVmid(cluster, HashFqdn(loc[w].fqdn)) :
          IF vmid = 0
          THEN /\ Finish(w, "create_instance", "ResourceException", <<>>)
               /\ UNCHANGED cluster
          ELSE IF loc[w].type = LXC
          THEN /\ cluster' = [cluster EXCEPT ![vmid] =
                    [Object("lxc", loc[w].fqdn, loc[w].node,
                            SerializeMetadata(loc[w].metadata))
                       EXCEPT !.lock = locked]]
               /\ Goto(w, "create_wait_created", loc[w])
          ELSE /\ cluster' = [cluster EXCEPT ![vmid] =
                    [Object("qemu", StubVmName(loc[w].fqdn, w, vmid), loc[w].node,
                            GarbageDescription)
                       EXCEPT !.lock = locked]]
               /\ Goto(w, "create_copy_disk", [loc[w] EXCEPT !.vm_id = vmid])
    /\ UNCHANGED <<today, snippets, images, wait, uservm>>

\* one poll of _wait_for_instance_created; late: (now - start) > timeout,
\* which the first poll, taken right after start, cannot see
CreateWaitCreated(w, late) ==
    /\ pc[w] = "create_wait_created"
    /\ late => loc[w].polled
    /\ IF \E v \in ClusterResources(cluster) :
            /\ cluster[v].name = loc[w].fqdn
            /\ cluster[v].type = EntryType(loc[w].type)
            /\ ~cluster[v].lock
       THEN Goto(w, "create_read", [loc[w] EXCEPT !.polled = FALSE])
       ELSE IF late
       THEN Finish(w, "create_instance", "Unavailable", <<>>)
       ELSE Goto(w, "create_wait_created", [loc[w] EXCEPT !.polled = TRUE])
    /\ UNCHANGED <<cluster, today, snippets, images, wait, uservm>>

\* instance = _read_instance_by_fqdn(instance_type, fqdn)
CreateRead(w) ==
    /\ pc[w] = "create_read"
    /\ LET r == ReadInstanceByFqdn(cluster, loc[w].type, loc[w].fqdn, today)
       IN  IF r.raised # ""
           THEN Finish(w, "create_instance", r.raised, <<>>)
           ELSE Goto(w, "create_wait_lock",
                     [loc[w] EXCEPT !.vm_id = r.instance.id, !.node = r.instance.node])
    /\ UNCHANGED <<cluster, today, snippets, images, wait, uservm>>

\* a _wait_vmid_lock that gives up waiting and lets the operation go on
WaitVmidLockGoesOn(w, op, type, vm_id, late, next) ==
    IF ~Exists(cluster, vm_id) \/ cluster[vm_id].type # EntryType(type)
    THEN Finish(w, op, "ResourceException", <<>>)
    ELSE IF ~cluster[vm_id].lock \/ late
    THEN (IF next = "" THEN Finish(w, op, "", <<>>) ELSE Goto(w, next, loc[w]))
    ELSE Goto(w, pc[w], loc[w])

\* one poll of _wait_vmid_lock on the object vm_id, inside the operation op:
\* the config is read first, the clock after it. next: where the operation
\* goes on once the lock is seen released
WaitVmidLock(w, op, type, vm_id, late, next) ==
    IF ~Exists(cluster, vm_id) \/ cluster[vm_id].type # EntryType(type)
    THEN Finish(w, op, "ResourceException", <<>>)
    ELSE IF ~cluster[vm_id].lock
    THEN (IF next = "" THEN Finish(w, op, "", <<>>) ELSE Goto(w, next, loc[w]))
    ELSE IF late
    THEN Finish(w, op, "Unavailable", <<>>)
    ELSE Goto(w, pc[w], loc[w])

CreateWaitLock(w, late) ==
    /\ pc[w] \in {"create_wait_lock", "create_wait_lock_config", "create_wait_lock_resize"}
    /\ WaitVmidLock(w, "create_instance", loc[w].type, loc[w].vm_id, late,
                    CASE pc[w] = "create_wait_lock" -> "create_features"
                      [] pc[w] = "create_wait_lock_config" -> "create_resize"
                      [] OTHER -> "")
    /\ UNCHANGED <<cluster, today, snippets, images, wait, uservm>>

\* the ssh command "pct unlock || pct unlock || pct unlock || pvesh set
\* ... -features": a shell || chain stops at the first command that exits 0.
\* chain: "unlocked" (an unlock exits 0, nothing after it runs), "set" (the
\* three unlocks fail and pvesh set succeeds), "failed" (all four fail)
EnableFeatures(o, chain) ==
    CASE chain = "unlocked" -> [status |-> 0, object |-> [o EXCEPT !.lock = FALSE]]
      [] chain = "set" -> [status |-> 0, object |-> [o EXCEPT !.features = TRUE]]
      [] OTHER -> [status |-> 1, object |-> o]

SshChains == {"unlocked", "set", "failed"}

CreateFeatures(w, chain) ==
    /\ pc[w] = "create_features"
    /\ LET v == loc[w].vm_id
           gone == ~Exists(cluster, v) \/ cluster[v].type # "lxc"
           r == IF gone THEN [status |-> 1, object |-> cluster[v]]
                ELSE EnableFeatures(cluster[v], chain)
       IN  /\ gone => chain = "failed"
           /\ cluster' = [cluster EXCEPT ![v] = r.object]
           /\ IF r.status # 0
              THEN Finish(w, "create_instance", "Unavailable", <<>>)
              ELSE Finish(w, "create_instance", "", <<>>)
    /\ UNCHANGED <<today, snippets, images, wait, uservm>>

\* cleanup_stub: its body reads instance.node, and no name instance is bound
\* on the VM path, so the call raises NameError before any DELETE is sent
CleanupStub(cl, vm_id) == [raised |-> "NameError", cluster |-> cl]

\* a disk step of the VM path (copy of the image, EFI disk): a non-zero exit
\* status runs cleanup_stub, whose own error is what leaves create_instance
CreateDiskStep(w, status, next) ==
    IF status = 0
    THEN /\ Goto(w, next, loc[w])
         /\ UNCHANGED cluster
    ELSE LET c == CleanupStub(cluster, loc[w].vm_id)
         IN  /\ cluster' = c.cluster
             /\ Finish(w, "create_instance",
                       IF c.raised # "" THEN c.raised ELSE "Unavailable", <<>>)

CreateCopyDisk(w, status) ==
    /\ pc[w] = "create_copy_disk"
    /\ CreateDiskStep(w, status, "create_efi")
    /\ UNCHANGED <<today, snippets, images, wait, uservm>>

CreateEfi(w, status) ==
    /\ pc[w] = "create_efi"
    /\ CreateDiskStep(w, status, "create_config")
    /\ UNCHANGED <<today, snippets, images, wait, uservm>>

\* the PUT that turns the stub into the instance: name and description
CreateConfig(w, ok, locked) ==
    /\ pc[w] = "create_config"
    /\ LET v == loc[w].vm_id
       IN  IF ok /\ Exists(cluster, v) /\ cluster[v].type = "qemu"
           THEN /\ cluster' = [cluster EXCEPT ![v].name = loc[w].fqdn,
                                              ![v].description =
                                                  SerializeMetadata(loc[w].metadata),
                                              ![v].lock = locked]
                /\ Goto(w, "create_wait_lock_config", loc[w])
           ELSE /\ UNCHANGED cluster
                /\ Finish(w, "create_instance", "ResourceException", <<>>)
    /\ UNCHANGED <<today, snippets, images, wait, uservm>>

\* the PUT that resizes the primary disk
CreateResize(w, ok, locked) ==
    /\ pc[w] = "create_resize"
    /\ LET v == loc[w].vm_id
       IN  IF ok /\ Exists(cluster, v) /\ cluster[v].type = "qemu"
           THEN /\ cluster' = [cluster EXCEPT ![v].resized = TRUE, ![v].lock = locked]
                /\ Goto(w, "create_wait_lock_resize", loc[w])
           ELSE /\ UNCHANGED cluster
                /\ Finish(w, "create_instance", "ResourceException", <<>>)
    /\ UNCHANGED <<today, snippets, images, wait, uservm>>

\* what a specification lets the environment of create_instance do
AnyInputs ==
    [types |-> Types, hostnames |-> Hostnames,
     images |-> {DefaultImage(type) : type \in Types},
     envs |-> {OkEnv, [OkEnv EXCEPT !.wget = 1]},
     macs |-> RandomMacs, orders |-> {"any"}, locked |-> BOOLEAN, late |-> BOOLEAN,
     chains |-> SshChains, status |-> {0, 1}, ok |-> BOOLEAN]

\* no fault: every call to the hypervisor and every ssh command succeeds
NoFault ==
    [AnyInputs EXCEPT !.envs = {OkEnv}, !.chains = {"unlocked", "set"},
                      !.status = {0}, !.ok = {TRUE}]

\* create_instance, the steps both kinds of instance share
CreateCommon(w, in) ==
    \/ \E type \in in.types, username \in Usernames, hostname \in in.hostnames :
          CreateBegin(w, type, username, hostname)
    \/ \E node \in Nodes, image \in in.images, env \in in.envs :
          CreateImage(w, node, image, env)
    \/ \E order \in in.orders : CreateNic(w, in.macs, order)
    \/ \E locked \in in.locked : CreatePost(w, locked)
    \/ \E late \in in.late : CreateWaitLock(w, late)

\* create_instance, the steps of the container path
CreateContainer(w, in) ==
    \/ \E late \in in.late : CreateWaitCreated(w, late)
    \/ CreateRead(w)
    \/ \E chain \in in.chains : CreateFeatures(w, chain)

\* create_instance, the steps of the VM path
CreateVm(w, in) ==
    \/ \E status \in in.status : CreateCopyDisk(w, status)
    \/ \E status \in in.status : CreateEfi(w, status)
    \/ \E ok \in in.ok, locked \in in.locked : CreateConfig(w, ok, locked)
    \/ \E ok \in in.ok, locked \in in.locked : CreateResize(w, ok, locked)

--------------------------------------------------------------------------

\* the provision of a user VM that has not been requested
NoProvision == [stage |-> "none", remarks |-> <<>>]

\* the user-VM provider before any request
NoUserVm ==
    [stored |-> NoProvision, vm |-> NoProvision, pc |-> "idle",
     op |-> "", raised |-> ""]

\* no wait primitive has been called
NoWait ==
    [kind |-> "", type |-> "", start |-> 0, clock |-> 0, now |-> 0,
     condition |-> FALSE, observed |-> FALSE, result |-> ""]

Init ==
    /\ cluster = [v \in VmIds |-> NoObject]
    /\ pc = [w \in Workers |-> "idle"]
    /\ loc = [w \in Workers |-> NoLoc]
    /\ held = [w \in Workers |-> NoInstance]
    /\ outcome = [w \in Workers |-> NoOutcome]
    /\ today = 0
    /\ snippets = {}
    /\ images = <<>>
    /\ wait = NoWait
    /\ uservm = NoUserVm

\* two requests race to create: no fault, no lock
RaceInputs ==
    [NoFault EXCEPT !.types = {LXC}, !.macs = {1}, !.locked = {FALSE},
                    !.late = {FALSE}, !.chains = {"set"}]

NextRace ==
    \E w \in Workers : CreateCommon(w, RaceInputs) \/ CreateContainer(w, RaceInputs)

SpecRace == Init /\ [][NextRace]_vars

--------------------------------------------------------------------------
(* The cluster as the claims look at it *)

\* the objects that carry a Metadata document: the instances of the cluster
Instances(cl) == {v \in ClusterResources(cl) : ParseMetadata(cl[v].description).ok}

StoredMetadata(cl, v) == ParseMetadata(cl[v].description).metadata

PrimaryIp(cl, v) == StoredMetadata(cl, v).network.nic_allocation.addresses[1]

--------------------------------------------------------------------------
(* C1 *)

\* C1: after any interleaving of create_instance operations, two creates
\* that each scanned the cluster before the other wrote included, no two
\* instances present in the cluster have the same primary IP.
C1_PrimaryIpUnique ==
    \A a \in Instances(cluster), b \in Instances(cluster) :
        a # b => PrimaryIp(cluster, a) # PrimaryIp(cluster, b)

--------------------------------------------------------------------------
(* create_instance alone, with every fault of its environment *)

CreateInputs == [AnyInputs EXCEPT !.hostnames = {"web"}, !.macs = {1}]

NextCreate ==
    \/ \E w \in {"w1"} :
          \/ CreateCommon(w, CreateInputs)
          \/ CreateContainer(w, CreateInputs)
          \/ CreateVm(w, CreateInputs)
    \/ \E v \in VmIds : HypervisorUnlock(v)
    \/ \E v \in VmIds : DescriptionEdited(v)

SpecCreate == Init /\ [][NextCreate]_vars

--------------------------------------------------------------------------
(* C5 *)

\* the step is the existence check of a create_instance(type, username,
\* hostname) of worker w, made while an object named with the FQDN exists
CreateOnExisting(w, type, username, hostname) ==
    /\ CreateBegin(w, type, username, hostname)
    /\ FirstNamed(cluster, GetInstanceFqdnForUsername(type, username, hostname)) # 0

AddressesInUse(cl) == {PrimaryIp(cl, v) : v \in Instances(cl)}

--------------------------------------------------------------------------
(* C6 *)

\* where create_instance stands on the VM path once the stub exists
AfterStub ==
    {"create_copy_disk", "create_efi", "create_config", "create_wait_lock_config",
     "create_resize", "create_wait_lock_resize"}

\* C6: in the VM path of create_instance, once the stub object exists, a
\* failure of any later step (disk copy, EFI disk, reconfiguration, lock
\* wait, resize) ends with the stub object deleted from the cluster.
C6_StubDeletedOnFailure ==
    [][\A w \in Workers :
          (pc[w] \in AfterStub /\ pc'[w] = "idle" /\ outcome'[w].raised # "")
             => ~Exists(cluster', loc[w].vm_id)]_vars

--------------------------------------------------------------------------
(* Lifecycle operations on an instance the caller has read *)

\* read_instance_by_account: the instance the next operation is handed
ReadInstanceByAccount(w, type, username, hostname) ==
    /\ pc[w] = "idle"
    /\ LET fqdn == GetInstanceFqdnForUsername(type, username, hostname)
           r == ReadInstanceByFqdn(cluster, type, fqdn, today)
       IN  IF r.raised # ""
           THEN Finish(w, "read_instance_by_account", r.raised, <<>>)
           ELSE /\ pc' = [pc EXCEPT ![w] = "ready"]
                /\ held' = [held EXCEPT ![w] = r.instance]
                /\ outcome' = [outcome EXCEPT ![w] =
                      [op |-> "read_instance_by_account", raised |-> "", returned |-> <<>>]]
                /\ UNCHANGED loc
    /\ UNCHANGED <<cluster, today, snippets, images, wait, uservm>>

\* the hypervisor serves nodes/<node>/<lxc|qemu>/<id> for this instance
Served(cl, instance) ==
    /\ instance.id \in VmIds
    /\ Exists(cl, instance.id)
    /\ cl[instance.id].type = EntryType(instance.type)

\* write_out_instance_metadata: a PUT of the whole Metadata the caller holds
WriteOutInstanceMetadata(cl, instance) ==
    IF Served(cl, instance)
    THEN [raised |-> "",
          cluster |-> [cl EXCEPT ![instance.id].description =
                                     SerializeMetadata(instance.metadata)]]
    ELSE [raised |-> "ResourceException", cluster |-> cl]

\* the steps of start_instance in the order they are issued. A container:
\* the put of nameserver and net0, the firewall options, the start request.
\* A VM: the ssh command that removes the snippet files, the detach of the
\* cloud-init drive, the three sftp writes, the attach of the drive with
\* cicustom, net0, the firewall options, the ipsets, the start request
StartSteps(type) ==
    IF type = LXC THEN <<"net0", "firewall", "start">>
    ELSE <<"rm", "detach", "snippets", "attach", "net0", "firewall", "ipset", "start">>

\* the first step that is a request on the object itself
FirstApi(type) == IF type = LXC THEN 1 ELSE 2

\* what leaves start_instance when a step raises
StartError(step) ==
    CASE step = "rm" -> "SSHException"
      [] step = "snippets" -> "IOError"
      [] OTHER -> "ResourceException"

\* start_instance. failAt: the step that raises, 0 when none does; rm: the
\* exit status of the rm command, which the code never reads, so the steps
\* after it run whatever it is
StartCall(w, rm, failAt) ==
    /\ pc[w] = "ready"
    /\ held[w].type = LXC => rm = 0
    /\ LET i == held[w]
           steps == StartSteps(i.type)
           nic == i.metadata.network.nic_allocation
           done(step) == \E k \in 1..Len(steps) :
                            steps[k] = step /\ (failAt = 0 \/ k < failAt)
           removed == IF done("rm") /\ rm = 0 THEN snippets \ {i.fqdn} ELSE snippets
       IN  /\ failAt <= Len(steps)
           /\ ~Served(cluster, i) => failAt = FirstApi(i.type)
           /\ snippets' = IF done("snippets") THEN removed \cup {i.fqdn} ELSE removed
           /\ cluster' =
                 IF ~Served(cluster, i) THEN cluster
                 ELSE [cluster EXCEPT
                         ![i.id].cloudinit = IF done("attach") THEN TRUE
                                             ELSE IF done("detach") THEN FALSE ELSE @,
                         ![i.id].net0 = IF done("net0") THEN nic ELSE @,
                         ![i.id].firewall = done("firewall") \/ @,
                         ![i.id].ipset = IF done("ipset")
                                         THEN [k \in DOMAIN nic.addresses |-> {nic.addresses[k]}]
                                         ELSE @,
                         ![i.id].status = IF done("start") THEN "running" ELSE @]
           /\ Finish(w, "start_instance",
                     IF failAt = 0 THEN "" ELSE StartError(steps[failAt]), <<>>)
    /\ UNCHANGED <<today, images, wait, uservm>>

\* start_instance with no fault (ok), or with the first request on the
\* object refused
StartInstance(w, ok) ==
    /\ pc[w] = "ready"
    /\ StartCall(w, 0, IF ok /\ Served(cluster, held[w]) THEN 0 ELSE FirstApi(held[w].type))

\* stop_instance and shutdown_instance: a request only for an instance read
\* as Running; down: whether the guest goes down on the request
StopOrShutdown(w, op, down) ==
    /\ pc[w] = "ready"
    /\ LET i == held[w]
       IN  IF i.status # Running
           THEN /\ Finish(w, op, "", <<>>)
                /\ UNCHANGED cluster
           ELSE IF Served(cluster, i)
           THEN /\ cluster' = [cluster EXCEPT ![i.id].status =
                                   IF down THEN "stopped" ELSE cluster[i.id].status]
                /\ Finish(w, op, "", <<>>)
           ELSE /\ Finish(w, op, "ResourceException", <<>>)
                /\ UNCHANGED cluster
    /\ UNCHANGED <<today, snippets, images, wait, uservm>>

StopInstance(w) == StopOrShutdown(w, "stop_instance", TRUE)

ShutdownInstance(w, down) == StopOrShutdown(w, "shutdown_instance", down)

\* a delete_instance that does not look at the status
DeleteInstanceUnchecked(w) ==
    /\ pc[w] = "ready"
    /\ snippets' = IF held[w].type = VPS THEN snippets \ {held[w].fqdn} ELSE snippets
    /\ cluster' = [cluster EXCEPT ![held[w].id] = NoObject]
    /\ Finish(w, "delete_instance", "", <<>>)
    /\ UNCHANGED <<today, images, wait, uservm>>

\* delete_instance
DeleteInstance(w) ==
    /\ pc[w] = "ready"
    /\ LET i == held[w]
       IN  IF i.status # Stopped
           THEN /\ Finish(w, "delete_instance", "Unavailable", <<>>)
                /\ UNCHANGED <<cluster, snippets>>
           ELSE /\ snippets' = IF i.type = VPS THEN snippets \ {i.fqdn} ELSE snippets
                /\ IF Served(cluster, i)
                   THEN /\ cluster' = [cluster EXCEPT ![i.id] = NoObject]
                        /\ Finish(w, "delete_instance", "", <<>>)
                   ELSE /\ Finish(w, "delete_instance", "ResourceException", <<>>)
                        /\ UNCHANGED cluster
    /\ UNCHANGED <<today, images, wait, uservm>>

--------------------------------------------------------------------------
(* reset_instance_root_user *)

\* a reset_instance_root_user that does not look at the status
ResetBeginUnchecked(w, supplied) ==
    /\ pc[w] = "ready"
    /\ Goto(w, "reset_wait_lock",
            [NoLoc EXCEPT !.type = held[w].type, !.fqdn = held[w].fqdn,
                          !.node = held[w].node, !.vm_id = held[w].id,
                          !.supplied = supplied,
                          !.root_user =
                              IF supplied THEN SuppliedRootUser
                              ELSE GenerateInstanceRootUser("reset").root_user])
    /\ UNCHANGED <<cluster, today, snippets, images, wait, uservm>>

\* the status check, and the credentials: generated unless the caller passes
\* a root_user
ResetBegin(w, supplied) ==
    /\ pc[w] = "ready"
    /\ IF held[w].status = Stopped
       THEN Finish(w, "reset_instance_root_user", "Unavailable", <<>>)
       ELSE Goto(w, "reset_wait_lock",
                 [NoLoc EXCEPT !.type = held[w].type, !.fqdn = held[w].fqdn,
                               !.node = held[w].node, !.vm_id = held[w].id,
                               !.supplied = supplied,
                               !.root_user =
                                   IF supplied THEN SuppliedRootUser
                                   ELSE GenerateInstanceRootUser("reset").root_user])
    /\ UNCHANGED <<cluster, today, snippets, images, wait, uservm>>

ResetWaitLock(w, late) ==
    /\ pc[w] = "reset_wait_lock"
    /\ WaitVmidLock(w, "reset_instance_root_user", loc[w].type, loc[w].vm_id, late,
                    IF loc[w].type = LXC THEN "reset_install" ELSE "reset_wait_agent")
    /\ UNCHANGED <<cluster, today, snippets, images, wait, uservm>>

\* the guest of an instance can be reached (pct exec, the guest agent)
GuestUp(cl, instance) == Served(cl, instance) /\ cl[instance.id].status = "running"

\* one poll of _wait_for_qemu_guest_agent_ping: the clock is read before the
\* ping, and any error of the ping is swallowed
ResetWaitAgent(w, pong, late) ==
    /\ pc[w] = "reset_wait_agent"
    /\ late => loc[w].polled
    /\ pong => GuestUp(cluster, held[w])
    /\ IF pong THEN Goto(w, "reset_install", [loc[w] EXCEPT !.polled = FALSE])
       ELSE IF late THEN Finish(w, "reset_instance_root_user", "Unavailable", <<>>)
       ELSE Goto(w, "reset_wait_agent", [loc[w] EXCEPT !.polled = TRUE])
    /\ UNCHANGED <<cluster, today, snippets, images, wait, uservm>>

\* the sub-steps that install the credentials, in the order they are issued;
\* a container: six ssh commands; a VM: seven guest-agent calls
ResetSteps(type) ==
    IF type = LXC
    THEN <<"password", "mkdir", "ssh_key", "banner", "sshd_config", "restart">>
    ELSE <<"unlock_root", "password", "mkdir", "ssh_key", "sshd_config", "banner", "restart">>

\* the guest after the sub-steps before failAt ran (failAt = 0: all of them)
GuestAfter(guest, type, root_user, failAt) ==
    LET ran(step) == \E k \in 1..Len(ResetSteps(type)) :
                         ResetSteps(type)[k] = step /\ (failAt = 0 \/ k < failAt)
    IN  [password |-> IF ran("password") THEN root_user ELSE guest.password,
         ssh_key |-> IF ran("ssh_key") THEN root_user ELSE guest.ssh_key]

\* the sub-steps, then metadata.root_user = root_user, the write of the
\* Metadata and the return; failAt: the sub-step that fails, 0 when none does
ResetInstall(w, failAt) ==
    /\ pc[w] = "reset_install"
    /\ failAt <= Len(ResetSteps(loc[w].type))
    /\ ~GuestUp(cluster, held[w]) => failAt = 1
    /\ LET i == held[w]
           root == loc[w].root_user
           installed == IF Served(cluster, i)
                        THEN [cluster EXCEPT ![i.id].guest_root =
                                 GuestAfter(cluster[i.id].guest_root, i.type, root, failAt)]
                        ELSE cluster
           updated == [i EXCEPT !.metadata.root_user = root]
           written == WriteOutInstanceMetadata(installed, updated)
           generated == GenerateInstanceRootUser("reset")
       IN  IF failAt # 0
           THEN /\ cluster' = installed
                /\ Finish(w, "reset_instance_root_user",
                          IF i.type = LXC THEN "Unavailable" ELSE "ResourceException", <<>>)
           ELSE /\ cluster' = written.cluster
                /\ IF written.raised # ""
                   THEN Finish(w, "reset_instance_root_user", written.raised, <<>>)
                   ELSE IF loc[w].supplied
                   THEN Finish(w, "reset_instance_root_user", "UnboundLocalError", <<>>)
                   ELSE Finish(w, "reset_instance_root_user", "",
                               <<generated.password, generated.private_key, root>>)
    /\ UNCHANGED <<today, snippets, images, wait, uservm>>

\* a task of the hypervisor (a backup, a snapshot) takes the lock of an object
HypervisorLock(v) ==
    /\ Exists(cluster, v)
    /\ ~cluster[v].lock
    /\ cluster' = [cluster EXCEPT ![v].lock = TRUE]
    /\ UNCHANGED <<pc, loc, held, outcome, today, snippets, images, wait, uservm>>

--------------------------------------------------------------------------
(* The lifecycle of instances, one request at a time *)

LifecycleInputs ==
    [NoFault EXCEPT !.hostnames = {"web"}, !.macs = {1}, !.orders = {"sorted"},
                    !.chains = {"set"}]

\* the sub-steps of reset_instance_root_user that fail here: none, the first
LifecycleFailures == {0, 1}

Lifecycle(w) ==
    \/ \E type \in Types, username \in Usernames, hostname \in LifecycleInputs.hostnames :
          ReadInstanceByAccount(w, type, username, hostname)
    \/ \E ok \in BOOLEAN : StartInstance(w, ok)
    \/ StopInstance(w)
    \/ \E down \in BOOLEAN : ShutdownInstance(w, down)
    \/ DeleteInstance(w)
    \/ \E supplied \in BOOLEAN : ResetBegin(w, supplied)
    \/ \E late \in BOOLEAN : ResetWaitLock(w, late)
    \/ \E pong \in BOOLEAN, late \in BOOLEAN : ResetWaitAgent(w, pong, late)
    \/ \E failAt \in LifecycleFailures : ResetInstall(w, failAt)

Next ==
    \/ \E w \in {"w1"} :
          \/ CreateCommon(w, LifecycleInputs)
          \/ CreateContainer(w, LifecycleInputs)
          \/ CreateVm(w, LifecycleInputs)
          \/ Lifecycle(w)
    \/ \E v \in VmIds : HypervisorUnlock(v)
    \/ \E v \in VmIds : HypervisorLock(v)

Spec == Init /\ [][Next]_vars

--------------------------------------------------------------------------
(* Metadata mutations on an instance the caller has read *)

\* the dict d without the keys outside keep
Restrict(d, keep) == IF keep = {} THEN <<>> ELSE [k \in keep |-> d[k]]

\* d[key] = value
Store(d, key, value) ==
    [k \in DOMAIN d \cup {key} |-> IF k = key THEN value ELSE d[k]]

\* every mutation ends alike: the held Metadata is written out whole
WriteAndFinish(w, op, updated) ==
    LET written == WriteOutInstanceMetadata(cluster, updated)
    IN  /\ cluster' = written.cluster
        /\ Finish(w, op, written.raised, <<>>)

\* mark_instance_active
MarkInstanceActive(w) ==
    /\ pc[w] = "ready"
    /\ WriteAndFinish(w, "mark_instance_active",
                      [held[w] EXCEPT !.metadata.inactivity.marked_active_at = today])
    /\ UNCHANGED <<today, snippets, images, wait, uservm>>

\* add_instance_vhost
AddInstanceVhost(w, vhost, options) ==
    /\ pc[w] = "ready"
    /\ IF ~IsDomainAvailable(cluster, today, vhost)
       THEN /\ Finish(w, "add_instance_vhost", "Unavailable", <<>>)
            /\ UNCHANGED cluster
       ELSE WriteAndFinish(w, "add_instance_vhost",
                           [held[w] EXCEPT !.metadata.network.vhosts =
                               Store(held[w].metadata.network.vhosts, vhost, options)])
    /\ UNCHANGED <<today, snippets, images, wait, uservm>>

\* remove_instance_vhost
RemoveInstanceVhost(w, vhost) ==
    /\ pc[w] = "ready"
    /\ LET vhosts == held[w].metadata.network.vhosts
       IN  IF vhost \in DOMAIN vhosts
           THEN WriteAndFinish(w, "remove_instance_vhost",
                               [held[w] EXCEPT !.metadata.network.vhosts =
                                   Restrict(vhosts, DOMAIN vhosts \ {vhost})])
           ELSE /\ Finish(w, "remove_instance_vhost", "NotFound", <<>>)
                /\ UNCHANGED cluster
    /\ UNCHANGED <<today, snippets, images, wait, uservm>>

\* add_instance_port
AddInstancePort(w, external, internal) ==
    /\ pc[w] = "ready"
    /\ IF external \in DOMAIN GetPortForwardMap(cluster, today)
       THEN /\ Finish(w, "add_instance_port", "Unavailable", <<>>)
            /\ UNCHANGED cluster
       ELSE WriteAndFinish(w, "add_instance_port",
                           [held[w] EXCEPT !.metadata.network.ports =
                               Store(held[w].metadata.network.ports, external, internal)])
    /\ UNCHANGED <<today, snippets, images, wait, uservm>>

\* remove_instance_port: the write happens whether or not the port was there
RemoveInstancePort(w, external) ==
    /\ pc[w] = "ready"
    /\ LET ports == held[w].metadata.network.ports
       IN  WriteAndFinish(w, "remove_instance_port",
                          [held[w] EXCEPT !.metadata.network.ports =
                              Restrict(ports, DOMAIN ports \ {external})])
    /\ UNCHANGED <<today, snippets, images, wait, uservm>>

\* datetime.date.today() moves on
NextDay ==
    /\ today < MaxDay
    /\ today' = today + 1
    /\ UNCHANGED <<cluster, pc, loc, held, outcome, snippets, images, wait, uservm>>

\* containers created one after the other, no fault, no lock
PlainInputs ==
    [NoFault EXCEPT !.types = {LXC}, !.macs = {1}, !.orders = {"sorted"},
                    !.locked = {FALSE}, !.late = {FALSE}, !.chains = {"set"}]

\* the instance a request works on is read first
ReadAny(w) ==
    \E type \in PlainInputs.types, username \in Usernames, hostname \in Hostnames :
        ReadInstanceByAccount(w, type, username, hostname)

--------------------------------------------------------------------------
(* Port forwards: create_instance, add_instance_port, remove_instance_port *)

\* the external ports a request may name: the configured range and the
\* port just below it
RequestedPorts == (PortRangeFirst - 1)..PortRangeLast

InternalPorts == {22}

NextPorts ==
    \E w \in {"w1"} :
        \/ CreateCommon(w, PlainInputs)
        \/ CreateContainer(w, PlainInputs)
        \/ ReadAny(w)
        \/ \E external \in RequestedPorts, internal \in InternalPorts :
              AddInstancePort(w, external, internal)
        \/ \E external \in RequestedPorts : RemoveInstancePort(w, external)

SpecPorts == Init /\ [][NextPorts]_vars

Ports(cl, v) == StoredMetadata(cl, v).network.ports

\* C2: after any sequence of create_instance, add_instance_port and
\* remove_instance_port from a cluster with no port forwards, every external
\* port of every instance lies in the configured port-forward range and is
\* held by no other instance.
C2_PortsInRangeAndUnique ==
    \A v \in Instances(cluster) :
        \A external \in DOMAIN Ports(cluster, v) :
            /\ InPortRange(external)
            /\ \A u \in Instances(cluster) \ {v} : external \notin DOMAIN Ports(cluster, u)

--------------------------------------------------------------------------
(* Vhosts: create_instance, add_instance_vhost, remove_instance_vhost *)

\* the domains a request may name: a service subdomain, a custom domain
RequestedVhosts == {DefaultVhost(LXC, "ocanty", "db"), "blog.example.net"}

NextVhosts ==
    \E w \in {"w1"} :
        \/ CreateCommon(w, PlainInputs)
        \/ CreateContainer(w, PlainInputs)
        \/ ReadAny(w)
        \/ \E vhost \in RequestedVhosts : AddInstanceVhost(w, vhost, VHostOptions(80, FALSE))
        \/ \E vhost \in RequestedVhosts : RemoveInstanceVhost(w, vhost)

SpecVhosts == Init /\ [][NextVhosts]_vars

Vhosts(cl, v) == StoredMetadata(cl, v).network.vhosts

\* C3: after any sequence of create_instance and add_instance_vhost, no
\* domain that validate_domain reports as valid is a vhost of two different
\* instances, the default vhost create_instance inserts included.
C3_ValidVhostsUnique ==
    \A v \in Instances(cluster), u \in Instances(cluster) :
        v # u =>
            \A domain \in DOMAIN Vhosts(cluster, v) \cap DOMAIN Vhosts(cluster, u) :
                ~ValidateDomain(StoredMetadata(cluster, v).owner, domain).valid

--------------------------------------------------------------------------
(* Two requests on one instance, each working from its own read *)

MetaInputs == [PlainInputs EXCEPT !.hostnames = {"web"}]

NextMeta ==
    \/ \E w \in {"w1"} :
          \/ CreateCommon(w, MetaInputs)
          \/ CreateContainer(w, MetaInputs)
    \/ \E w \in Workers :
          \/ \E type \in MetaInputs.types, username \in Usernames,
                hostname \in MetaInputs.hostnames :
                ReadInstanceByAccount(w, type, username, hostname)
          \/ MarkInstanceActive(w)
          \/ \E internal \in InternalPorts : AddInstancePort(w, PortRangeFirst, internal)
          \/ RemoveInstancePort(w, PortRangeFirst)
    \/ NextDay

SpecMeta == Init /\ [][NextMeta]_vars

\* the metadata operations and the field each of them targets
MetadataMutations ==
    {"mark_instance_active", "add_instance_vhost", "remove_instance_vhost",
     "add_instance_port", "remove_instance_port", "reset_instance_root_user"}

\* the Metadata but for the field the operation targets
Untargeted(op, metadata) ==
    CASE op = "mark_instance_active" -> [metadata EXCEPT !.inactivity = NullMetadata.inactivity]
      [] op \in {"add_instance_vhost", "remove_instance_vhost"} ->
             [metadata EXCEPT !.network.vhosts = <<>>]
      [] op \in {"add_instance_port", "remove_instance_port"} ->
             [metadata EXCEPT !.network.ports = <<>>]
      [] OTHER -> [metadata EXCEPT !.root_user = NoRootUser]

\* C4: every metadata mutation changes only the field it targets in the
\* description stored in the hypervisor at that moment, so that when two
\* mutations of one instance interleave, each from its own earlier read, no
\* update of another field is lost.
C4_MutationKeepsOtherFields ==
    [][\A w \in Workers :
          (/\ pc[w] = "ready"
           /\ outcome'[w].op \in MetadataMutations
           /\ outcome'[w].raised = ""
           /\ held[w].id \in Instances(cluster))
             => Untargeted(outcome'[w].op, StoredMetadata(cluster', held[w].id))
                   = Untargeted(outcome'[w].op, StoredMetadata(cluster, held[w].id))]_vars

--------------------------------------------------------------------------
(* The wait primitives against the clock *)

WaitKinds == {"vmid_lock", "instance_created", "instance_status", "guest_agent_ping"}

\* the default timeout of each primitive, in seconds
Timeout(kind) == IF kind = "instance_created" THEN 120 ELSE 25

PollInterval == 1

\* the seconds a call to the hypervisor may take
Delays == {0, 1, SlowCall}

\* a wait primitive is called at time start; the guest-agent wait refuses
\* anything but a VM before its first poll
WaitBegin(kind, type, start) ==
    /\ wait.result # "polling"
    /\ wait' = [kind |-> kind, type |-> type, start |-> start, clock |-> start,
                now |-> start, condition |-> FALSE, observed |-> FALSE,
                result |-> IF kind = "guest_agent_ping" /\ type # VPS
                           THEN "Unavailable" ELSE "polling"]
    /\ UNCHANGED <<cluster, pc, loc, held, outcome, today, snippets, images, uservm>>

\* a wait that takes the elapsed timeout for the awaited condition
WaitPollSilent(delay) ==
    /\ wait.result = "polling"
    /\ wait' = [wait EXCEPT !.clock = wait.clock + delay + PollInterval,
                            !.now = wait.clock + delay,
                            !.observed = wait.condition,
                            !.result = IF wait.condition
                                          \/ wait.clock + delay - wait.start > Timeout(wait.kind)
                                       THEN "returned" ELSE "polling"]
    /\ UNCHANGED <<cluster, pc, loc, held, outcome, today, snippets, images, uservm>>

\* a wait whose timer starts again at every turn of the loop: no time has
\* ever elapsed when the timeout is tested
WaitPollRestarting(delay) ==
    /\ wait.result = "polling"
    /\ wait' = IF wait.condition
               THEN [wait EXCEPT !.clock = wait.clock + delay, !.observed = TRUE,
                                 !.result = "returned"]
               ELSE [wait EXCEPT !.now = wait.start, !.observed = FALSE]
    /\ UNCHANGED <<cluster, pc, loc, held, outcome, today, snippets, images, uservm>>

\* one turn of the loop of a wait primitive, its call taking delay seconds:
\* _wait_vmid_lock reads the clock after the call and only when the lock is
\* still there, the other three read it before the call
WaitPoll(delay) ==
    /\ wait.result = "polling"
    /\ LET after == wait.clock + delay
           now == IF wait.kind = "vmid_lock" THEN after ELSE wait.clock
       IN  wait' =
             IF wait.condition
             THEN [wait EXCEPT !.clock = after,
                               !.now = IF wait.kind = "vmid_lock" THEN wait.now ELSE now,
                               !.observed = TRUE,
                               !.result = "returned"]
             ELSE IF now - wait.start > Timeout(wait.kind)
             THEN [wait EXCEPT !.clock = after, !.now = now, !.observed = FALSE,
                               !.result = "Unavailable"]
             ELSE [wait EXCEPT !.clock = after + PollInterval, !.now = now,
                               !.observed = FALSE]
    /\ UNCHANGED <<cluster, pc, loc, held, outcome, today, snippets, images, uservm>>

\* what is waited for comes about, or goes away again
ConditionChanges ==
    /\ wait.result = "polling"
    /\ wait' = [wait EXCEPT !.condition = ~wait.condition]
    /\ UNCHANGED <<cluster, pc, loc, held, outcome, today, snippets, images, uservm>>

NextWait ==
    \/ \E kind \in WaitKinds, type \in Types, start \in 0..MaxStart :
          WaitBegin(kind, type, start)
    \/ \E delay \in Delays : WaitPoll(delay)
    \/ ConditionChanges

SpecWait == Init /\ [][NextWait]_vars

--------------------------------------------------------------------------
(* C7 *)

\* C7: each wait primitive returns normally only after a poll in which it
\* observed the condition it waits for; when a poll finds the timeout
\* elapsed without that observation, the primitive raises
\* ResourceUnavailable.
C7_WaitReturnsOnlyOnObservation ==
    [][(wait.result = "polling" /\ wait'.condition = wait.condition /\ wait' # wait)
          => /\ wait'.result = "returned" => (wait.condition /\ wait'.observed)
             /\ (~wait.condition /\ wait'.now - wait.start > Timeout(wait.kind))
                   => wait'.result = "Unavailable"
             /\ wait'.result = "Unavailable" => ~wait'.observed]_vars

\* a wait for the guest agent of a VM has timed out: never a pong, the
\* clock past the timeout, ResourceUnavailable
C7_Witness ==
    /\ wait.kind = "guest_agent_ping"
    /\ wait.type = VPS
    /\ wait.result = "Unavailable"
    /\ ~wait.observed
    /\ wait.now - wait.start > Timeout(wait.kind)

--------------------------------------------------------------------------
(* C8 *)

\* where an operation stands while it is inside a _wait_vmid_lock
LockWaits ==
    {"create_wait_lock", "create_wait_lock_config", "create_wait_lock_resize",
     "reset_wait_lock"}

\* worker w polls the lock of its object, finds it held, and the wait ends
\* at this poll: the timeout
LockWaitTimesOut(w) ==
    /\ pc[w] \in LockWaits
    /\ loc[w].vm_id \in VmIds
    /\ Exists(cluster, loc[w].vm_id)
    /\ cluster[loc[w].vm_id].type = EntryType(loc[w].type)
    /\ cluster[loc[w].vm_id].lock
    /\ pc'[w] # pc[w]

\* C8: when the lock of the instance is still held as a lock wait inside a
\* lifecycle operation times out, the operation raises ResourceUnavailable
\* and ends there; nothing in the hypervisor or on disk changes at or after
\* that wait: a VM being created is not resized, a container being created
\* gets no features, a reset installs no credential and leaves the stored
\* metadata as it was.
C8_LockTimeoutStopsOperation ==
    [][\A w \in Workers :
          LockWaitTimesOut(w)
             => LET v == loc[w].vm_id
                IN  /\ pc'[w] = "idle"
                    /\ outcome'[w].raised = "Unavailable"
                    /\ outcome'[w].op =
                          (IF pc[w] = "reset_wait_lock" THEN "reset_instance_root_user"
                           ELSE "create_instance")
                    /\ cluster' = cluster
                    /\ snippets' = snippets
                    /\ pc[w] = "create_wait_lock_config" => ~cluster'[v].resized
                    /\ pc[w] = "create_wait_lock" => ~cluster'[v].features
                    /\ pc[w] = "reset_wait_lock"
                          => /\ cluster'[v].guest_root = cluster[v].guest_root
                             /\ StoredMetadata(cluster', v) = StoredMetadata(cluster, v)]_vars

\* a create_instance of a VM has ended with ResourceUnavailable on the lock
\* wait after the reconfiguration: the VM is there, locked and not resized
C8_Witness ==
    \E w \in Workers, v \in VmIds :
        /\ outcome[w].op = "create_instance"
        /\ outcome[w].raised = "Unavailable"
        /\ cluster[v].type = "qemu"
        /\ cluster[v].name = GetInstanceFqdnForUsername(VPS, "ocanty", "web")
        /\ cluster[v].lock
        /\ ~cluster[v].resized

--------------------------------------------------------------------------
(* C9 *)

--------------------------------------------------------------------------
(* C10 *)

\* C10: when every sub-step of reset_instance_root_user succeeds on a
\* Running instance, the new root_user is persisted into the stored
\* metadata and the call returns the triple (plaintext_password,
\* ssh_private_key, root_user), both when the call generated the root_user
\* and when the caller passed it in.
C10_ResetPersistsAndReturns ==
    [][\A w \in Workers :
          (ResetInstall(w, 0) /\ Served(cluster, held[w]) /\ held[w].status = Running)
             => /\ StoredMetadata(cluster', held[w].id).root_user = loc[w].root_user
                /\ outcome'[w].op = "reset_instance_root_user"
                /\ outcome'[w].raised = ""
                /\ Len(outcome'[w].returned) = 3
                /\ outcome'[w].returned[3] = loc[w].root_user]_vars

--------------------------------------------------------------------------
(* C11 *)

\* C11: reset_instance_root_user on an instance whose status is not Running
\* raises ResourceUnavailable before any credential is generated, any SSH or
\* guest-agent command is issued, or the metadata is written.
C11_ResetRequiresRunning ==
    [][\A w \in Workers :
          /\ (pc[w] = "ready" /\ held[w].status # Running
                 /\ (pc'[w] = "reset_wait_lock"
                        \/ outcome'[w].op = "reset_instance_root_user"))
                => /\ pc'[w] = "idle"
                   /\ outcome'[w].op = "reset_instance_root_user"
                   /\ outcome'[w].raised = "Unavailable"
                   /\ loc'[w].root_user = NoRootUser
                   /\ cluster' = cluster
                   /\ snippets' = snippets
          /\ pc'[w] \in {"reset_wait_lock", "reset_wait_agent", "reset_install"}
                => held'[w].status = Running]_vars

\* a reset_instance_root_user has been refused while no object is running
C11_Witness ==
    \E w \in Workers :
        /\ outcome[w].op = "reset_instance_root_user"
        /\ outcome[w].raised = "Unavailable"
        /\ Instances(cluster) # {}
        /\ \A v \in VmIds : cluster[v].status # "running"

--------------------------------------------------------------------------
(* Creates until the address pool is used up *)

PoolInputs ==
    [NoFault EXCEPT !.macs = {1}, !.locked = {FALSE}, !.late = {FALSE},
                    !.chains = {"set"}]

NextPool ==
    \E w \in {"w1"} :
        \/ CreateCommon(w, PoolInputs)
        \/ CreateContainer(w, PoolInputs)
        \/ CreateVm(w, PoolInputs)

SpecPool == Init /\ [][NextPool]_vars

\* the addresses held by the instances a cluster scan returns
ScannedAddresses(cl, day) ==
    {ReadInstances(cl, day)[i].metadata.network.nic_allocation.addresses[1] :
        i \in 1..Len(ReadInstances(cl, day))}

\* the step is the _allocate_nic of a create_instance of worker w
AllocatesNic(w) == pc[w] = "create_nic" /\ pc'[w] # pc[w]

--------------------------------------------------------------------------
(* C12 *)

\* C12: when every address of the allowed range but the gateway is held by
\* an instance, create_instance raises ResourceUnavailable, and that call
\* has created or modified no hypervisor object.
C12_ExhaustedPoolRaisesUnavailable ==
    [][\A w \in Workers :
          (/\ AllocatesNic(w)
           /\ (AllowedRange.first..AllowedRange.last) \ {Gateway}
                 \subseteq ScannedAddresses(cluster, today))
             => /\ pc'[w] = "idle"
                /\ outcome'[w].op = "create_instance"
                /\ outcome'[w].raised = "Unavailable"
                /\ cluster' = cluster]_vars

--------------------------------------------------------------------------
(* C13 *)

\* C13: every address _allocate_nic returns is a host of the configured
\* network inside the allowed range, is not the gateway, and is held by no
\* instance of the cluster scan made during the call.
C13_AllocatedAddressIsFree ==
    [][\A w \in Workers :
          (AllocatesNic(w) /\ pc'[w] = "create_post")
             => LET ip == loc'[w].metadata.network.nic_allocation.addresses[1]
                IN  /\ Len(loc'[w].metadata.network.nic_allocation.addresses) = 1
                    /\ ip \in NetworkHosts
                    /\ AllowedRange.first <= ip /\ ip <= AllowedRange.last
                    /\ ip # Gateway
                    /\ ip \notin ScannedAddresses(cluster, today)]_vars

\* an address has been allocated while an instance of the cluster holds one
C13_Witness ==
    \E w \in Workers :
        /\ pc[w] = "create_post"
        /\ Instances(cluster) # {}
        /\ loc[w].metadata.network.nic_allocation.addresses[1]
              \notin {PrimaryIp(cluster, v) : v \in Instances(cluster)}

--------------------------------------------------------------------------
(* Port allocation: get_random_available_external_port, add_instance_port *)

\* every port of the range, mapped or not
RemainingPortsUnmapped(cl, day) == PortRangeFirst..PortRangeLast

\* full_range_set - occupied_set
RemainingPorts(cl, day) ==
    (PortRangeFirst..PortRangeLast) \ DOMAIN GetPortForwardMap(cl, day)

\* get_random_available_external_port, called for a request on an instance
\* the caller has read: random.choice of what remains
GetRandomAvailableExternalPort(w) ==
    /\ pc[w] = "ready"
    /\ LET remaining == RemainingPorts(cluster, today)
       IN  IF remaining # {}
           THEN /\ \E external \in remaining :
                      outcome' = [outcome EXCEPT ![w] =
                          [op |-> "get_random_available_external_port",
                           raised |-> "", returned |-> <<external>>]]
                /\ UNCHANGED <<pc, loc, held>>
           ELSE Finish(w, "get_random_available_external_port", "Unavailable", <<>>)
    /\ UNCHANGED <<cluster, today, snippets, images, wait, uservm>>

\* the port worker w was handed by get_random_available_external_port
Allocated(w) ==
    /\ pc[w] = "ready"
    /\ outcome[w].op = "get_random_available_external_port"
    /\ outcome[w].raised = ""

\* the caller adds the port it was handed
AddAllocatedPort(w, internal) ==
    /\ Allocated(w)
    /\ AddInstancePort(w, outcome[w].returned[1], internal)

NextAlloc ==
    \E w \in {"w1"} :
        \/ CreateCommon(w, PlainInputs)
        \/ CreateContainer(w, PlainInputs)
        \/ ReadAny(w)
        \/ GetRandomAvailableExternalPort(w)
        \/ \E internal \in InternalPorts : AddAllocatedPort(w, internal)
        \/ \E external \in RequestedPorts : RemoveInstancePort(w, external)

SpecAlloc == Init /\ [][NextAlloc]_vars

\* the instances of the cluster scan that hold the external port
Holders(cl, day, external) ==
    {i \in 1..Len(ReadInstances(cl, day)) :
        external \in DOMAIN ReadInstances(cl, day)[i].metadata.network.ports}

--------------------------------------------------------------------------
(* C14 *)

\* C14: get_random_available_external_port returns a port of the configured
\* range that is no key of the global port map, and raises
\* ResourceUnavailable exactly when there is no such port; a port allocated
\* and then added with add_instance_port was held by no instance before and
\* is held by the caller's instance afterwards, so that the ports so added
\* are pairwise distinct.
C14_AllocatedPortIsFree ==
    [][\A w \in Workers :
          /\ (/\ pc[w] = "ready"
              /\ outcome'[w] # outcome[w]
              /\ outcome'[w].op = "get_random_available_external_port")
                => LET free == {external \in PortRangeFirst..PortRangeLast :
                                   external \notin DOMAIN GetPortForwardMap(cluster, today)}
                   IN  /\ outcome'[w].raised \in {"", "Unavailable"}
                       /\ outcome'[w].raised = "Unavailable" <=> free = {}
                       /\ outcome'[w].raised = ""
                             => /\ Len(outcome'[w].returned) = 1
                                /\ outcome'[w].returned[1] \in free
                                /\ InPortRange(outcome'[w].returned[1])
          /\ (/\ Allocated(w)
              /\ outcome'[w].op = "add_instance_port"
              /\ outcome'[w].raised = "")
                => /\ Holders(cluster, today, outcome[w].returned[1]) = {}
                   /\ outcome[w].returned[1] \in DOMAIN Ports(cluster', held[w].id)
                   /\ \A v \in Instances(cluster') \ {held[w].id} :
                         outcome[w].returned[1] \notin DOMAIN Ports(cluster', v)]_vars

\* allocated ports have been added to two instances, and with the range
\* used up the next allocation has been refused
C14_Witness ==
    /\ \E w \in Workers :
          /\ outcome[w].op = "get_random_available_external_port"
          /\ outcome[w].raised = "Unavailable"
    /\ \E v \in Instances(cluster), u \in Instances(cluster) :
          /\ v # u
          /\ Ports(cluster, v) # <<>>
          /\ Ports(cluster, u) # <<>>
          /\ DOMAIN Ports(cluster, v) \cap DOMAIN Ports(cluster, u) = {}

--------------------------------------------------------------------------
(* C15 *)

\* C15: add_instance_port with an external port that some instance of the
\* cluster already holds in its metadata.network.ports is rejected with an
\* error, and the stored metadata of every instance is left unchanged.
C15_HeldPortRejected ==
    [][\A w \in Workers, external \in RequestedPorts, internal \in InternalPorts :
          (/\ AddInstancePort(w, external, internal)
           /\ \E v \in Instances(cluster) : external \in DOMAIN Ports(cluster, v))
             => /\ outcome'[w].raised # ""
                /\ cluster' = cluster]_vars

--------------------------------------------------------------------------
(* Domains of every kind as vhosts of one instance *)

\* a custom domain that verifies; a custom domain with an allowed A record
\* and no TXT record; a blacklisted and a two-label service subdomain; a
\* custom domain that does not resolve
RequestedDomains ==
    {"blog.example.net", "shop.example.org", "admin." \o ServiceBaseDomain,
     "a.b." \o ServiceBaseDomain, "nowhere.example.com"}

NextDomains ==
    \E w \in {"w1"} :
        \/ CreateCommon(w, MetaInputs)
        \/ CreateContainer(w, MetaInputs)
        \/ \E type \in MetaInputs.types, username \in Usernames,
              hostname \in MetaInputs.hostnames :
                 ReadInstanceByAccount(w, type, username, hostname)
        \/ \E vhost \in RequestedDomains : AddInstanceVhost(w, vhost, VHostOptions(80, FALSE))
        \/ \E vhost \in RequestedDomains : RemoveInstanceVhost(w, vhost)

SpecDomains == Init /\ [][NextDomains]_vars

--------------------------------------------------------------------------
(* C16 *)

\* C16: add_instance_vhost(d) on an instance whose stored vhosts hold d
\* since an earlier add_instance_vhost(d) fails with DomainInvalid and leaves
\* the stored vhosts as they were.
C16_SecondAddIsDomainInvalid ==
    [][\A w \in Workers, d \in RequestedDomains :
          (/\ AddInstanceVhost(w, d, VHostOptions(80, FALSE))
           /\ held[w].id \in Instances(cluster)
           /\ d \in DOMAIN Vhosts(cluster, held[w].id)
           /\ d \in DOMAIN held[w].metadata.network.vhosts)
             => /\ outcome'[w].raised = "DomainInvalid"
                /\ cluster' = cluster]_vars

--------------------------------------------------------------------------
(* C17 *)

\* C17: add_instance_vhost with a domain that validate_domain rejects for
\* the instance fails with DomainInvalid and does not insert the domain into
\* the instance's vhosts.
C17_RejectedDomainNotInserted ==
    [][\A w \in Workers, d \in RequestedDomains :
          (/\ AddInstanceVhost(w, d, VHostOptions(80, FALSE))
           /\ ValidateDomain(held[w].metadata.owner, d).raised = ""
           /\ ~ValidateDomain(held[w].metadata.owner, d).valid
           /\ d \notin DOMAIN held[w].metadata.network.vhosts)
             => /\ outcome'[w].raised = "DomainInvalid"
                /\ \A v \in Instances(cluster') : d \notin DOMAIN Vhosts(cluster', v)]_vars

--------------------------------------------------------------------------
(* C18 *)

\* C18: validate_domain, applied to a vhost of an instance, returns
\* (valid, remarks) and never raises; a failed A/AAAA resolution and a failed
\* TXT lookup each leave a remark, and valid is reported exactly when there
\* is no remark.
C18_ValidateDomainNeverRaises ==
    \A v \in Instances(cluster) :
        \A d \in DOMAIN Vhosts(cluster, v) :
            LET r == ValidateDomain(StoredMetadata(cluster, v).owner, d)
            IN  /\ r.raised = ""
                /\ r.valid <=> r.remarks = {}

--------------------------------------------------------------------------
(* C19 *)

\* C19: remove_instance_port with an external port that is absent from the
\* ports of the caller's instance raises no error and leaves the description
\* the hypervisor stores for that instance unchanged, also when the caller
\* read the instance before another operation changed the stored metadata.
C19_RemoveAbsentPortKeepsDescription ==
    [][\A w \in Workers :
          (/\ RemoveInstancePort(w, PortRangeFirst)
           /\ PortRangeFirst \notin DOMAIN held[w].metadata.network.ports)
             => /\ outcome'[w].raised = ""
                /\ cluster'[held[w].id].description = cluster[held[w].id].description]_vars

--------------------------------------------------------------------------
(* Node selection: _select_best_node and the create_instance that calls it *)

\* the longest node listing considered
MaxNodes == 2

NodeNames == {"leela", "bender", "fry"}

\* config.proxmox.blacklisted_nodes
BlacklistedNodes == {"fry"}

\* image.specs: memory in MB, cores
ImageSpecs == [memory |-> 2, cores |-> 2]

\* one entry of prox.nodes.get()
NodeEntries ==
    [node : NodeNames, maxmem : {10000000}, mem : {1000000, 6000000, 8000000},
     maxcpu : {1, 2}]

\* the listings prox.nodes.get() may return: each node once, in any order
NodeListings ==
    {nodes \in UNION {[1..n -> NodeEntries] : n \in 0..MaxNodes} :
        \A i \in 1..Len(nodes), j \in 1..Len(nodes) :
            nodes[i].node = nodes[j].node => i = j}

\* the three tests of the scoring loop; mem/maxmem < 0.6 in integers
NodeScore(node, specs) ==
    (IF node.maxmem - node.mem > specs.memory * 1000000 THEN 1 ELSE 0)
    + (IF node.mem * 10 < 6 * node.maxmem THEN 1 ELSE 0)
    + (IF node.maxcpu >= specs.cores THEN 1 ELSE 0)

\* the scoreboard dict after the first i nodes: its keys in insertion order
\* and their scores
RECURSIVE Scoreboard(_, _, _)
Scoreboard(nodes, specs, i) ==
    IF i = 0 THEN [keys |-> <<>>, score |-> <<>>]
    ELSE LET before == Scoreboard(nodes, specs, i - 1)
             name == nodes[i].node
             known == \E k \in 1..Len(before.keys) : before.keys[k] = name
             keys == IF known THEN before.keys ELSE Append(before.keys, name)
             base == IF known THEN before.score[name] ELSE 0
             score == [n \in DOMAIN before.score \cup {name} |->
                          IF n = name THEN base + NodeScore(nodes[i], specs)
                          ELSE before.score[n]]
         IN  IF name \in BlacklistedNodes
             THEN [keys |-> SelectSeq(keys, LAMBDA n : n # name),
                   score |-> Restrict(score, DOMAIN score \ {name})]
             ELSE [keys |-> keys, score |-> score]

\* _select_best_node returns None
NoNode == "None"

\* _select_best_node: None for an empty listing; otherwise element 0 of the
\* keys sorted by descending score, a stable sort, which does not exist when
\* every node was deleted from the scoreboard
SelectBestNode(nodes, specs) ==
    IF Len(nodes) = 0 THEN [raised |-> "", node |-> NoNode]
    ELSE LET board == Scoreboard(nodes, specs, Len(nodes))
             best == {k \in 1..Len(board.keys) :
                         \A j \in 1..Len(board.keys) :
                             board.score[board.keys[j]] <= board.score[board.keys[k]]}
         IN  IF board.keys = <<>> THEN [raised |-> "IndexError", node |-> NoNode]
             ELSE [raised |-> "",
                   node |-> board.keys[CHOOSE k \in best : \A j \in best : k <= j]]

\* what ClusterNodeSSH(None) ends with inside _ensure_image_present
NodelessFailures == {"TypeError", "SSHException"}

\* the node choice of create_instance: the result of _select_best_node is
\* used as it comes
CreateSelectNode(w, nodes, image, env) ==
    LET best == SelectBestNode(nodes, ImageSpecs)
    IN  IF best.raised = "" /\ best.node # NoNode
        THEN CreateImage(w, best.node, image, env)
        ELSE /\ pc[w] = "create_image"
             /\ image.catalogue = loc[w].type
             /\ \E e \in (IF best.raised # "" THEN {best.raised}
                          ELSE IF ~FormatFits(loc[w].type, image) THEN {"NameError"}
                          ELSE NodelessFailures) :
                   Finish(w, "create_instance", e, <<>>)
             /\ UNCHANGED <<cluster, today, snippets, images, wait, uservm>>

NextNodes ==
    \E w \in {"w1"} :
        \/ \E type \in PlainInputs.types, username \in Usernames,
              hostname \in PlainInputs.hostnames :
                 CreateBegin(w, type, username, hostname)
        \/ \E nodes \in NodeListings, image \in PlainInputs.images, env \in PlainInputs.envs :
              CreateSelectNode(w, nodes, image, env)
        \/ \E order \in PlainInputs.orders : CreateNic(w, PlainInputs.macs, order)
        \/ \E locked \in PlainInputs.locked : CreatePost(w, locked)
        \/ \E late \in PlainInputs.late : CreateWaitLock(w, late)
        \/ CreateContainer(w, PlainInputs)
        \/ ReadAny(w)
        \/ DeleteInstance(w)

SpecNodes == Init /\ [][NextNodes]_vars

\* the nodes of a listing that are not blacklisted, by position
Schedulable(nodes) == {i \in 1..Len(nodes) : nodes[i].node \notin BlacklistedNodes}

--------------------------------------------------------------------------
(* C20 *)

\* C20: _select_best_node never returns a blacklisted node; it returns the
\* first node in listing order among the non-blacklisted nodes of maximal
\* score, the score counting one for free memory above the required memory,
\* one for memory use below 0.6 and one for enough cores; and when the
\* listing is empty or every node is blacklisted, create_instance reports
\* NoSchedulable and leaves the cluster untouched.
C20_BestNodeOrNoSchedulable ==
    [][\A w \in Workers, nodes \in NodeListings :
          (\E image \in PlainInputs.images, env \in PlainInputs.envs :
              CreateSelectNode(w, nodes, image, env))
             => IF Schedulable(nodes) = {}
                THEN /\ outcome'[w].op = "create_instance"
                     /\ outcome'[w].raised = "NoSchedulable"
                     /\ cluster' = cluster
                ELSE pc'[w] = "create_nic"
                        => \E i \in Schedulable(nodes) :
                              /\ loc'[w].node = nodes[i].node
                              /\ \A j \in Schedulable(nodes) :
                                    \/ NodeScore(nodes[j], ImageSpecs)
                                          < NodeScore(nodes[i], ImageSpecs)
                                    \/ /\ NodeScore(nodes[j], ImageSpecs)
                                             = NodeScore(nodes[i], ImageSpecs)
                                       /\ i <= j]_vars

--------------------------------------------------------------------------
(* Images: creates with every image of the catalogues, on a node whose
   commands may fail and whose image files may be replaced *)

ImageInputs ==
    [NoFault EXCEPT !.images = AllImages, !.envs = ImageEnvs,
                    !.hostnames = {"web"}, !.macs = {1}, !.orders = {"sorted"},
                    !.locked = {FALSE}, !.late = {FALSE}, !.chains = {"set"}]

\* the path of an image's disk file
ImagePath(image) == ImagesDir(image.catalogue) \o "/" \o image.disk_file

\* somebody replaces the disk file of an image by one with another checksum
ImageFileChanges(node, image) ==
    /\ FormatFits(image.catalogue, image)
    /\ <<node, ImagePath(image)>> \in DOMAIN images
    /\ images[<<node, ImagePath(image)>>] # "bad"
    /\ images' = WithFile(images, <<node, ImagePath(image)>>, "bad")
    /\ UNCHANGED <<cluster, pc, loc, held, outcome, today, snippets, wait, uservm>>

NextImages ==
    \/ \E w \in {"w1"} :
          \/ CreateCommon(w, ImageInputs)
          \/ CreateContainer(w, ImageInputs)
          \/ CreateVm(w, ImageInputs)
          \/ \E type \in ImageInputs.types, username \in Usernames,
                hostname \in ImageInputs.hostnames :
                   ReadInstanceByAccount(w, type, username, hostname)
          \/ DeleteInstance(w)
    \/ \E node \in Nodes, type \in Types : ImageFileChanges(node, DefaultImage(type))

SpecImages == Init /\ [][NextImages]_vars

\* the FQDN is the name of some object of the cluster
Named(cl, fqdn) == \E v \in VmIds : Exists(cl, v) /\ cl[v].name = fqdn

--------------------------------------------------------------------------
(* C21 *)

\* C21: a create_instance whose image has the disk format of the other kind
\* is rejected with ResourceUnavailable; no image file is written and no
\* cluster object is created for it.
C21_WrongFormatIsUnavailable ==
    [][\A w \in Workers :
        pc[w] = "create_image" /\ pc'[w] # pc[w] =>
        \A node \in Nodes, image \in {i \in AllImages : i.catalogue = loc[w].type},
           env \in ImageEnvs :
          (CreateImage(w, node, image, env) /\ ~FormatFits(loc[w].type, image))
             => /\ outcome'[w].op = "create_instance"
                /\ outcome'[w].raised = "Unavailable"
                /\ images' = images
                /\ cluster' = cluster]_vars

--------------------------------------------------------------------------
(* C22 *)

\* C22: _ensure_image_present returns a path only if the image's disk file
\* then exists at that path and matches the image's checksum when one is
\* set; every other outcome raises ResourceUnavailable.
C22_PathOrUnavailable ==
    [][\A w \in Workers :
        pc[w] = "create_image" /\ pc'[w] # pc[w] =>
        \A node \in Nodes, image \in {i \in AllImages : i.catalogue = loc[w].type},
           env \in ImageEnvs :
          (CreateImage(w, node, image, env) /\ FormatFits(loc[w].type, image))
             => LET ensured == EnsureImagePresent(images, node, image,
                                                  ImagesDir(loc[w].type), env)
                    key == <<node, ensured.path>>
                IN  IF ensured.raised = ""
                    THEN /\ pc'[w] = "create_nic"
                         /\ ensured.path = ImagePath(image)
                         /\ key \in DOMAIN images'
                         /\ image.disk_sha256sum # "None" => images'[key] = "good"
                    ELSE /\ outcome'[w].op = "create_instance"
                         /\ outcome'[w].raised = "Unavailable"]_vars

--------------------------------------------------------------------------
(* Instances created one after the other from every image of the
   catalogues, the files on the node left to _ensure_image_present *)

ReuseInputs == [ImageInputs EXCEPT !.hostnames = Hostnames]

NextReuse ==
    \E w \in {"w1"} :
        \/ CreateCommon(w, ReuseInputs)
        \/ CreateContainer(w, ReuseInputs)
        \/ CreateVm(w, ReuseInputs)

SpecReuse == Init /\ [][NextReuse]_vars

--------------------------------------------------------------------------
(* C23 *)

--------------------------------------------------------------------------
(* C24 *)

\* C24: when the create of a VM has to download the image and the payload
\* does not have the catalogue's checksum, create_instance raises
\* ResourceUnavailable, and no cluster object, stub or other, exists for
\* that FQDN afterwards.
C24_BadDownloadLeavesNoObject ==
    [][\A w \in Workers :
        pc[w] = "create_image" /\ pc'[w] # pc[w] =>
        \A node \in Nodes, image \in {i \in AllImages : i.catalogue = loc[w].type},
           env \in ImageEnvs :
          (/\ CreateImage(w, node, image, env)
           /\ loc[w].type = VPS
           /\ FormatFits(VPS, image)
           /\ image.disk_sha256sum # "None"
           /\ env.wget = 0
           /\ env.payload = "bad"
           /\ EnsureImagePresent(images, node, image, ImagesDir(VPS), env).downloaded)
             => /\ outcome'[w].op = "create_instance"
                /\ outcome'[w].raised = "Unavailable"
                /\ cluster' = cluster
                /\ ~Named(cluster', loc[w].fqdn)]_vars

\* the create of a VM was refused with the bad payload left at download_path
C24_Witness ==
    \E w \in Workers, node \in Nodes :
        /\ outcome[w].op = "create_instance"
        /\ outcome[w].raised = "Unavailable"
        /\ <<node, DownloadPath(ImagesDir(VPS))>> \in DOMAIN images
        /\ images[<<node, DownloadPath(ImagesDir(VPS))>>] = "bad"
        /\ \A v \in VmIds : cluster[v].type # EntryType(VPS)

--------------------------------------------------------------------------
(* Reads of a cluster whose descriptions are edited outside the engine *)

\* the entries read_instances reads, in the order of the listing
Scanned(cl) == {v \in ClusterResources(cl) : ScanType(cl[v]) # ""}

\* read_instances: with ignore_errors the items that read without an
\* exception; without it the exception of the first entry that has one
ReadInstancesCall(cl, day, ignore_errors) ==
    LET failing == {v \in Scanned(cl) :
                       ReadInstanceOnNode(cl, ScanType(cl[v]), v, day).raised # ""}
        first == CHOOSE v \in failing : \A u \in failing : v <= u
    IN  IF ignore_errors \/ failing = {}
        THEN [raised |-> "", instances |-> ReadInstances(cl, day)]
        ELSE [raised |-> ReadInstanceOnNode(cl, ScanType(cl[first]), first, day).raised,
              instances |-> <<>>]

\* a caller lists the cluster
ReadAll(w, ignore_errors) ==
    /\ pc[w] = "idle"
    /\ LET r == ReadInstancesCall(cluster, today, ignore_errors)
       IN  Finish(w, "read_instances", r.raised, r.instances)
    /\ UNCHANGED <<cluster, today, snippets, images, wait, uservm>>

\* what an administrator may change in a description: the owner, the
\* permanent flag, the suspension, and the day the instance was marked active,
\* set to the last day on which the instance still counts as active today
MetadataEdited(v, edit) ==
    /\ Exists(cluster, v)
    /\ cluster[v].description.yaml
    /\ LET m == ParseMetadata(cluster[v].description).metadata
           type == IF cluster[v].type = "lxc" THEN LXC ELSE VPS
           edited ==
               CASE edit = "owner" -> [m EXCEPT !.owner = "zoidberg"]
                 [] edit = "permanent" -> [m EXCEPT !.permanent = ~m.permanent]
                 [] edit = "suspended" -> [m EXCEPT !.tos.suspended = ~m.tos.suspended]
                 [] OTHER -> [m EXCEPT !.inactivity.marked_active_at =
                                  today - InactivityShutdownNumDays(type) + 1]
       IN  /\ edited # m
           /\ cluster' = [cluster EXCEPT ![v].description = SerializeMetadata(edited)]
    /\ UNCHANGED <<pc, loc, held, outcome, today, snippets, images, wait, uservm>>

ReadInputs == [PlainInputs EXCEPT !.types = Types, !.hostnames = {"web"}]

NextReads ==
    \/ \E w \in {"w1"} :
          \/ CreateCommon(w, ReadInputs)
          \/ CreateContainer(w, ReadInputs)
          \/ CreateVm(w, ReadInputs)
          \/ \E type \in ReadInputs.types, username \in Usernames,
                hostname \in ReadInputs.hostnames :
                   ReadInstanceByAccount(w, type, username, hostname)
          \/ \E ignore_errors \in BOOLEAN : ReadAll(w, ignore_errors)
          \/ MarkInstanceActive(w)
    \/ \E v \in VmIds : DescriptionEdited(v)
    \/ \E v \in VmIds : MetadataEdited(v, "owner")

SpecReads == Init /\ [][NextReads]_vars

NextActive ==
    \/ \E w \in {"w1"} :
          \/ CreateCommon(w, ReadInputs)
          \/ CreateContainer(w, ReadInputs)
          \/ CreateVm(w, ReadInputs)
          \/ \E type \in ReadInputs.types, username \in Usernames,
                hostname \in ReadInputs.hostnames :
                   ReadInstanceByAccount(w, type, username, hostname)
          \/ DeleteInstance(w)
    \/ \E v \in VmIds, edit \in {"permanent", "suspended", "marked"} :
          MetadataEdited(v, edit)
    \/ NextDay

SpecActive == Init /\ [][NextActive]_vars

\* the object a direct read of the account's instance of this type is
\* aimed at (0 when there is none)
Target(type) ==
    FirstNamed(cluster, GetInstanceFqdnForUsername(type, "ocanty", "web"))

\* the description of object v does not decode as Metadata
Garbled(cl, v) ==
    v \in VmIds /\ Exists(cl, v) /\ ~ParseMetadata(cl[v].description).ok

--------------------------------------------------------------------------
(* C25 *)

\* C25: an object whose description does not decode as Metadata is never
\* returned as an instance: read_instances with ignore_errors omits it and
\* returns every other readable instance, without ignore_errors the first
\* such object aborts the read with its error, a direct read of it fails with
\* MalformedMetadata, and no read changes the cluster.
C25_GarbledIsMalformedMetadata ==
    [][\A w \in Workers :
          /\ \A type \in Types :
                (/\ ReadInstanceByAccount(w, type, "ocanty", "web")
                 /\ Garbled(cluster, Target(type))
                 /\ cluster[Target(type)].type = EntryType(type))
                   => /\ outcome'[w].raised = "MalformedMetadata"
                      /\ cluster' = cluster
          /\ \A ignore_errors \in BOOLEAN :
                ReadAll(w, ignore_errors)
                   => /\ cluster' = cluster
                      /\ \A i \in 1..Len(outcome'[w].returned) :
                            ~Garbled(cluster, outcome'[w].returned[i].id)
                      /\ IF ignore_errors
                         THEN /\ outcome'[w].raised = ""
                              /\ {outcome'[w].returned[i].id :
                                     i \in 1..Len(outcome'[w].returned)}
                                    = Readable(cluster, today)
                         ELSE (\E v \in Scanned(cluster) : Garbled(cluster, v))
                                 => outcome'[w].raised # ""]_vars

--------------------------------------------------------------------------
(* C26 *)

\* C26: every instance a read returns, of either kind, has active = permanent
\* or (not suspended and today - marked_active_at < the kind's days before
\* shutdown), whatever permanent, tos.suspended and the age are.
C26_ActiveFormula ==
    [][\A w \in Workers :
          (/\ pc[w] = "idle"
           /\ pc'[w] = "ready"
           /\ outcome'[w].op = "read_instance_by_account")
             => LET i == held'[w]
                    m == i.metadata
                IN  i.active <=>
                       \/ m.permanent
                       \/ /\ ~m.tos.suspended
                          /\ today - m.inactivity.marked_active_at
                                < InactivityShutdownNumDays(i.type)]_vars

--------------------------------------------------------------------------
(* C27 *)

\* hostname + "." + owner + "." + the kind's subdomain + "." + the base
ExpectedFqdn(i) ==
    i.hostname \o "." \o i.metadata.owner \o "." \o GetInstanceTypeBaseFqdn(i.type)

\* the name of object v does not end with the suffix of its owner and kind
Misnamed(cl, v) ==
    /\ v \in VmIds
    /\ Exists(cl, v)
    /\ ParseMetadata(cl[v].description).ok
    /\ ~EndsWith(cl[v].name,
                 "." \o ParseMetadata(cl[v].description).metadata.owner \o "."
                     \o GetInstanceTypeBaseFqdn(IF cl[v].type = "lxc" THEN LXC ELSE VPS))

\* C27: every instance a read returns has fqdn = hostname.owner.kind
\* subdomain.cluster base, and an object whose name does not end with the
\* suffix of its metadata owner and its kind is not returned as an instance.
C27_FqdnOfOwnerAndKind ==
    [][\A w \in Workers :
          /\ (/\ pc[w] = "idle"
              /\ pc'[w] = "ready"
              /\ outcome'[w].op = "read_instance_by_account")
                => /\ held'[w].fqdn = ExpectedFqdn(held'[w])
                   /\ held'[w].fqdn = cluster[held'[w].id].name
                   /\ ~Misnamed(cluster, held'[w].id)
          /\ (\E ignore_errors \in BOOLEAN : ReadAll(w, ignore_errors))
                => \A k \in 1..Len(outcome'[w].returned) :
                      LET i == outcome'[w].returned[k]
                      IN  /\ i.fqdn = ExpectedFqdn(i)
                          /\ i.fqdn = cluster[i.id].name
                          /\ ~Misnamed(cluster, i.id)]_vars

\* the owner in a description was changed, and the direct read of that
\* object has raised
C27_Witness ==
    \E w \in Workers, v \in VmIds :
        /\ Misnamed(cluster, v)
        /\ outcome[w].op = "read_instance_by_account"
        /\ outcome[w].raised \in {"NameError", "Unavailable"}

--------------------------------------------------------------------------
(* build_traefik_config *)

\* config.proxmox.network.traefik.service_subdomain_cert_resolver
ServiceSubdomainCertResolver == "service_subdomain_cert_resolver"

\* config.proxmox.network.traefik.user_domain_cert_resolver
UserDomainCertResolver == "user_domain_cert_resolver"

\* s.replace('.', '-')
RECURSIVE Dashed(_)
Dashed(s) ==
    IF Len(s) = 0 THEN ""
    ELSE (IF SubSeq(s, 1, 1) = "." THEN "-" ELSE SubSeq(s, 1, 1))
            \o Dashed(SubSeq(s, 2, Len(s)))

\* f"{fqdn_prefix}-{vhost_suffix}"
HttpKey(fqdn, vhost) == Dashed(fqdn) \o "-" \o Dashed(vhost)

\* the router of a vhost: its rule Host(`vhost`), its service, its resolver
HttpRouter(vhost, key) ==
    [rule |-> vhost,
     service |-> key,
     certResolver |-> IF EndsWith(vhost, ServiceBaseDomain)
                      THEN ServiceSubdomainCertResolver
                      ELSE UserDomainCertResolver]

\* the one server of the service of a vhost: proto://ip:port
HttpService(instance, options) ==
    [proto |-> IF options.https THEN "https" ELSE "http",
     ip |-> instance.metadata.network.nic_allocation.addresses[1],
     port |-> options.port]

\* the (instance, vhost) pairs the first loop writes an entry for
ValidPairs(instances) ==
    {p \in UNION {{<<i, vhost>> : vhost \in DOMAIN instances[i].metadata.network.vhosts} :
                     i \in 1..Len(instances)} :
        ValidateDomain(instances[p[1]].metadata.owner, p[2]).valid}

\* c['http']: a key written for several pairs keeps one of their values
HttpSection(instances) ==
    LET pairs == ValidPairs(instances)
        key(p) == HttpKey(instances[p[1]].fqdn, p[2])
        keys == {key(p) : p \in pairs}
        written(k) == CHOOSE p \in pairs : key(p) = k
    IN  [routers |-> [k \in keys |-> HttpRouter(written(k)[2], k)],
         services |-> [k \in keys |->
                          HttpService(instances[written(k)[1]],
                                      instances[written(k)[1]].metadata.network
                                          .vhosts[written(k)[2]])]]

\* f"{fqdn_prefix}-{external_port}-tcp", and the same for udp
PortKey(fqdn, external, proto) ==
    Dashed(fqdn) \o "-" \o ToString(external) \o "-" \o proto

\* a document whose udp section is never filled
PortSectionTcpOnly(port_map, proto) ==
    LET keys == IF proto = "udp" THEN {}
                ELSE {PortKey(port_map[e].fqdn, e, proto) : e \in DOMAIN port_map}
        of(k) == CHOOSE e \in DOMAIN port_map : PortKey(port_map[e].fqdn, e, proto) = k
    IN  [routers |-> [k \in keys |-> [entryPoint |-> <<of(k), proto>>, service |-> k]],
         services |-> [k \in keys |->
                          [ip |-> port_map[of(k)].ip, port |-> port_map[of(k)].internal]]]

\* c['tcp'] or c['udp']: a router on the entry point of the external port
\* and a service with the one server ip:internal_port
PortSection(port_map, proto) ==
    LET keys == {PortKey(port_map[e].fqdn, e, proto) : e \in DOMAIN port_map}
        of(k) == CHOOSE e \in DOMAIN port_map : PortKey(port_map[e].fqdn, e, proto) = k
    IN  [routers |-> [k \in keys |-> [entryPoint |-> <<of(k), proto>>, service |-> k]],
         services |-> [k \in keys |->
                          [ip |-> port_map[of(k)].ip, port |-> port_map[of(k)].internal]]]

\* build_traefik_config: sections names the keys the document has
BuildTraefikConfig(cl, day) ==
    LET instances == ReadInstances(cl, day)
        port_map == GetPortForwardMap(cl, day)
    IN  [sections |-> (IF ValidPairs(instances) # {} THEN {"http"} ELSE {})
                        \cup (IF DOMAIN port_map # {} THEN {"tcp", "udp"} ELSE {}),
         http |-> HttpSection(instances),
         tcp |-> PortSection(port_map, "tcp"),
         udp |-> PortSection(port_map, "udp")]

\* a caller asks for the document
BuildConfig(w) ==
    /\ pc[w] = "idle"
    /\ Finish(w, "build_traefik_config", "", <<BuildTraefikConfig(cluster, today)>>)
    /\ UNCHANGED <<cluster, today, snippets, images, wait, uservm>>

\* a custom domain that verifies, one that does not, and a custom domain
\* that verifies and whose name ends with the letters of the service domain
TraefikDomains == {"blog.example.net", "shop.example.org", "blog" \o ServiceBaseDomain}

\* the options each of them is added with
TraefikOptions(vhost) ==
    IF vhost = "blog.example.net" THEN VHostOptions(443, TRUE) ELSE VHostOptions(80, FALSE)

NextTraefik ==
    \E w \in {"w1"} :
        \/ CreateCommon(w, PlainInputs)
        \/ CreateContainer(w, PlainInputs)
        \/ ReadAny(w)
        \/ \E vhost \in TraefikDomains : AddInstanceVhost(w, vhost, TraefikOptions(vhost))
        \/ \E external \in {PortRangeFirst}, internal \in InternalPorts :
              AddInstancePort(w, external, internal)
        \/ BuildConfig(w)

SpecTraefik == Init /\ [][NextTraefik]_vars

--------------------------------------------------------------------------
(* C28 *)

\* the domain is a subdomain of the service base domain
UnderServiceBase(vhost) == EndsWith(vhost, "." \o ServiceBaseDomain)

\* C28: build_traefik_config emits exactly one http router/service pair for
\* each (instance, vhost) whose vhost validates as valid and none for the
\* others; the service goes by http or https, following options.https, to the
\* primary IP of the instance and the port of the vhost, and the router's
\* cert resolver is the service-subdomain resolver when the vhost lies under
\* the service base domain and the user-domain resolver otherwise.
C28_HttpPairs ==
    [][\A w \in {"w1"} :
          BuildConfig(w) =>
             LET c == outcome'[w].returned[1]
                 instances == ReadInstances(cluster, today)
             IN  /\ Cardinality(DOMAIN c.http.routers) = Cardinality(ValidPairs(instances))
                 /\ DOMAIN c.http.services = DOMAIN c.http.routers
                 /\ \A i \in 1..Len(instances) :
                       \A vhost \in DOMAIN instances[i].metadata.network.vhosts :
                          LET k == HttpKey(instances[i].fqdn, vhost)
                              options == instances[i].metadata.network.vhosts[vhost]
                          IN  IF ValidateDomain(instances[i].metadata.owner, vhost).valid
                              THEN /\ k \in DOMAIN c.http.routers
                                   /\ c.http.routers[k].rule = vhost
                                   /\ c.http.routers[k].service = k
                                   /\ c.http.services[k] =
                                         [proto |-> IF options.https THEN "https" ELSE "http",
                                          ip |-> StoredMetadata(cluster, instances[i].id).network
                                                    .nic_allocation.addresses[1],
                                          port |-> options.port]
                                   /\ c.http.routers[k].certResolver =
                                         IF UnderServiceBase(vhost)
                                         THEN ServiceSubdomainCertResolver
                                         ELSE UserDomainCertResolver
                              ELSE k \notin DOMAIN c.http.routers]_vars

--------------------------------------------------------------------------
(* C29 *)

\* documents of clusters whose instances take and give up port forwards
NextForwards ==
    \E w \in {"w1"} :
        \/ CreateCommon(w, PlainInputs)
        \/ CreateContainer(w, PlainInputs)
        \/ ReadAny(w)
        \/ \E external \in RequestedPorts, internal \in InternalPorts :
              AddInstancePort(w, external, internal)
        \/ \E external \in RequestedPorts : RemoveInstancePort(w, external)
        \/ BuildConfig(w)

SpecForwards == Init /\ [][NextForwards]_vars

\* C29: build_traefik_config emits exactly one tcp and one udp
\* router/service pair per entry of the global port map, each with the
\* upstream <primary ip of the owning instance>:<internal port>, and each of
\* the sections http, tcp and udp is in the document if and only if it holds
\* at least one entry.
C29_PortPairsAndSections ==
    [][\A w \in {"w1"} :
          BuildConfig(w) =>
             LET c == outcome'[w].returned[1]
                 port_map == GetPortForwardMap(cluster, today)
                 section(proto) == IF proto = "tcp" THEN c.tcp
                                   ELSE IF proto = "udp" THEN c.udp ELSE c.http
             IN  /\ \A proto \in {"tcp", "udp"} :
                       /\ Cardinality(DOMAIN section(proto).routers)
                             = Cardinality(DOMAIN port_map)
                       /\ DOMAIN section(proto).services = DOMAIN section(proto).routers
                       /\ \A e \in DOMAIN port_map :
                             \E v \in Instances(cluster) :
                                /\ cluster[v].name = port_map[e].fqdn
                                /\ e \in DOMAIN Ports(cluster, v)
                                /\ LET k == PortKey(cluster[v].name, e, proto)
                                   IN  /\ k \in DOMAIN section(proto).routers
                                       /\ section(proto).routers[k].service = k
                                       /\ section(proto).services[k] =
                                             [ip |-> StoredMetadata(cluster, v).network
                                                        .nic_allocation.addresses[1],
                                              port |-> Ports(cluster, v)[e]]
                 /\ \A proto \in {"http", "tcp", "udp"} :
                       proto \in c.sections <=> DOMAIN section(proto).routers # {}]_vars

\* a document was built for a cluster whose port map has two entries
C29_Witness ==
    \E w \in {"w1"} :
        /\ outcome[w].op = "build_traefik_config"
        /\ {"tcp", "udp"} \subseteq outcome[w].returned[1].sections
        /\ Cardinality(DOMAIN outcome[w].returned[1].udp.routers) = 2
        /\ Cardinality(DOMAIN GetPortForwardMap(cluster, today)) = 2

--------------------------------------------------------------------------
(* C30 *)

\* instances of both kinds created one after the other, each with the
\* three octets _allocate_nic draws for it
MacInputs == [PlainInputs EXCEPT !.types = Types, !.macs = RandomMacs]

NextMacs ==
    \E w \in {"w1"} :
        \/ CreateCommon(w, MacInputs)
        \/ CreateContainer(w, MacInputs)
        \/ CreateVm(w, MacInputs)

SpecMacs == Init /\ [][NextMacs]_vars

MacAddress(cl, v) == StoredMetadata(cl, v).network.nic_allocation.macaddress

\* C30: after any sequence of create_instance operations, no two instances
\* of the cluster have the same MAC address in their nic_allocation.
C30_MacsUnique ==
    \A u \in Instances(cluster), v \in Instances(cluster) :
        u # v => MacAddress(cluster, u) # MacAddress(cluster, v)

--------------------------------------------------------------------------
(* C31 *)

\* well-formed Metadata values: group sets of two sizes, dates of one and two
\* digits, addresses of one and two digits, port maps of no, one and two
\* entries, both values of the flags and of root_user
MetadataValues ==
    {[owner |-> "ocanty",
      groups |-> groups,
      inactivity |-> [marked_active_at |-> day],
      network |-> [nic_allocation |-> nic,
                   vhosts |-> DefaultVhost(LXC, "ocanty", "web") :> VHostOptions(80, FALSE),
                   ports |-> ports],
      root_user |-> IF flag THEN NoRootUser ELSE "root-user-create",
      permanent |-> flag,
      tos |-> [suspended |-> ~flag]] :
        groups \in {{"cloud_instance"}, {"cloud_instance", "cloud_lxc"}},
        day \in {0, 12},
        nic \in {NICAllocation(2, 1), NICAllocation(12, 2)},
        ports \in {<<>>, PortRangeFirst :> 22,
                   (PortRangeFirst :> 22) @@ (PortRangeLast :> 8080)},
        flag \in BOOLEAN}

\* write_out_instance_metadata on an instance whose Metadata the caller set
WriteOut(w, m) ==
    /\ pc[w] = "ready"
    /\ WriteAndFinish(w, "write_out_instance_metadata", [held[w] EXCEPT !.metadata = m])
    /\ UNCHANGED <<today, snippets, images, wait, uservm>>

NextRoundTrip ==
    \E w \in {"w1"} :
        \/ CreateCommon(w, MetaInputs)
        \/ CreateContainer(w, MetaInputs)
        \/ \E type \in MetaInputs.types, username \in Usernames,
              hostname \in MetaInputs.hostnames :
                 ReadInstanceByAccount(w, type, username, hostname)
        \/ \E m \in MetadataValues : WriteOut(w, m)

SpecRoundTrip == Init /\ [][NextRoundTrip]_vars

--------------------------------------------------------------------------
(* C32 *)

\* C32: whenever create_instance for a container returns successfully, the
\* features fuse=1,keyctl=1,nesting=1 have been set on the new container,
\* whatever the force-unlock attempts before them did; and the feature step
\* runs only after the object was observed created and its lock observed
\* released.
C32_FeaturesSetOnSuccess ==
    [][\A w \in Workers :
          /\ (/\ pc[w] = "create_features"
              /\ pc'[w] = "idle"
              /\ outcome'[w].raised = "")
                => cluster'[loc[w].vm_id].features
          /\ (pc[w] # "create_features" /\ pc'[w] = "create_features")
                => /\ pc[w] = "create_wait_lock"
                   /\ Exists(cluster, loc[w].vm_id)
                   /\ cluster[loc[w].vm_id].name = loc[w].fqdn
                   /\ ~cluster[loc[w].vm_id].lock]_vars

--------------------------------------------------------------------------
(* C33 *)

\* resets of a running instance of either kind in which any one of the
\* sub-steps may fail
ResetFailures == 0..Len(ResetSteps(VPS))

NextReset ==
    \E w \in {"w1"} :
        \/ CreateCommon(w, LifecycleInputs)
        \/ CreateContainer(w, LifecycleInputs)
        \/ CreateVm(w, LifecycleInputs)
        \/ \E type \in Types, username \in Usernames, hostname \in LifecycleInputs.hostnames :
              ReadInstanceByAccount(w, type, username, hostname)
        \/ StartInstance(w, TRUE)
        \/ \E supplied \in BOOLEAN : ResetBegin(w, supplied)
        \/ ResetWaitLock(w, FALSE)
        \/ \E pong \in BOOLEAN, late \in BOOLEAN : ResetWaitAgent(w, pong, late)
        \/ \E failAt \in ResetFailures : ResetInstall(w, failAt)

SpecReset == Init /\ [][NextReset]_vars

\* the place of a sub-step in the order of its kind
StepIndex(type, step) == CHOOSE k \in 1..Len(ResetSteps(type)) : ResetSteps(type)[k] = step

\* C33: if any sub-step of reset_instance_root_user fails (a container: the
\* password, /root/.ssh, the key, the banner, sshd_config, the restart of
\* ssh; a VM: the guest-agent wait or any agent call), the call fails with
\* ResourceUnavailable, the sub-steps after it are not executed, and the
\* stored metadata.root_user still holds the previous value.
C33_FailedStepIsUnavailable ==
    [][\A w \in {"w1"} :
          /\ (pc[w] = "reset_wait_agent" /\ pc'[w] = "idle")
                => /\ outcome'[w].raised = "Unavailable"
                   /\ cluster' = cluster
          /\ pc[w] = "reset_install"
                => \A failAt \in ResetFailures \ {0} :
                      ResetInstall(w, failAt) =>
                         LET v == held[w].id
                             type == held[w].type
                         IN  /\ outcome'[w].raised = "Unavailable"
                             /\ cluster'[v].description = cluster[v].description
                             /\ failAt <= StepIndex(type, "password")
                                   => cluster'[v].guest_root.password
                                         = cluster[v].guest_root.password
                             /\ failAt <= StepIndex(type, "ssh_key")
                                   => cluster'[v].guest_root.ssh_key
                                         = cluster[v].guest_root.ssh_key]_vars

--------------------------------------------------------------------------
(* C34 *)

\* the step of start_instance that raises, 0 for none
StartFailures == 0..Len(StartSteps(VPS))

\* instances of both kinds started, stopped and started again, with any one
\* step of a start failing
NextStart ==
    \E w \in {"w1"} :
        \/ CreateCommon(w, LifecycleInputs)
        \/ CreateContainer(w, LifecycleInputs)
        \/ CreateVm(w, LifecycleInputs)
        \/ \E type \in Types, username \in Usernames, hostname \in LifecycleInputs.hostnames :
              ReadInstanceByAccount(w, type, username, hostname)
        \/ \E rm \in {0, 1}, failAt \in StartFailures : StartCall(w, rm, failAt)
        \/ StopInstance(w)

SpecStart == Init /\ [][NextStart]_vars

\* C34: in start_instance the start request is the last step and is issued
\* only after every configuration step of the call has completed: for a
\* container net0/nameserver and the firewall filter; for a VM the removal of
\* stale snippets, the detach of the old cloud-init drive, the three snippet
\* files, the cloud-init attach, net0, the firewall options and an ipset per
\* allocated address holding exactly that address. If any of these steps
\* fails, start is never issued.
C34_StartAfterEveryStep ==
    [][\A w \in {"w1"} :
          pc[w] = "ready" =>
             \A rm \in {0, 1}, failAt \in StartFailures :
                (StartCall(w, rm, failAt) /\ Served(cluster, held[w])) =>
                   LET i == held[w]
                       nic == i.metadata.network.nic_allocation
                       after == cluster'[i.id]
                       started == \/ outcome'[w].raised = ""
                                  \/ after.status # cluster[i.id].status
                   IN  /\ started =>
                            /\ rm = 0
                            /\ after.net0 = nic
                            /\ after.firewall
                            /\ i.type = VPS =>
                                  /\ after.cloudinit
                                  /\ i.fqdn \in snippets'
                                  /\ after.ipset = [k \in DOMAIN nic.addresses |->
                                                       {nic.addresses[k]}]
                       /\ (rm # 0 \/ (failAt # 0 /\ failAt < Len(StartSteps(i.type))))
                             => ~started]_vars

--------------------------------------------------------------------------
(* C35 *)

\* the port maps a Metadata is written out with: any of the requested
\* external ports, forwarded to one internal port
PortMaps ==
    {[e \in externals |-> internal] : externals \in SUBSET RequestedPorts, internal \in {22, 8080}}

\* write_out_instance_metadata on an instance whose ports the caller set
WritePorts(w, ports) ==
    /\ pc[w] = "ready"
    /\ WriteOut(w, [held[w].metadata EXCEPT !.network.ports = ports])

\* a caller asks for the port map
GetPortForwardMapCall(w) ==
    /\ pc[w] = "idle"
    /\ Finish(w, "get_port_forward_map", "", <<GetPortForwardMap(cluster, today)>>)
    /\ UNCHANGED <<cluster, today, snippets, images, wait, uservm>>

NextPortMap ==
    \E w \in {"w1"} :
        \/ CreateCommon(w, PlainInputs)
        \/ CreateContainer(w, PlainInputs)
        \/ ReadAny(w)
        \/ \E ports \in PortMaps : WritePorts(w, ports)
        \/ GetPortForwardMapCall(w)

SpecPortMap == Init /\ [][NextPortMap]_vars

\* C35: get_port_forward_map maps each in-range external port found in some
\* instance's metadata to exactly one (fqdn, primary ip, internal) triple,
\* that of the first instance in scan order holding it; ports held by later
\* instances and ports outside the range are not in the map, and building
\* the map modifies no instance's metadata.
C35_FirstHolderWins ==
    [][\A w \in {"w1"} :
          GetPortForwardMapCall(w) =>
             LET port_map == outcome'[w].returned[1]
                 instances == ReadInstances(cluster, today)
                 holders(e) == {k \in 1..Len(instances) :
                                   e \in DOMAIN instances[k].metadata.network.ports}
                 first(e) == CHOOSE k \in holders(e) : \A j \in holders(e) : k <= j
             IN  /\ cluster' = cluster
                 /\ \A e \in RequestedPorts :
                       IF InPortRange(e) /\ holders(e) # {}
                       THEN /\ e \in DOMAIN port_map
                            /\ port_map[e] =
                                  [fqdn |-> cluster[instances[first(e)].id].name,
                                   ip |-> PrimaryIp(cluster, instances[first(e)].id),
                                   internal |-> Ports(cluster, instances[first(e)].id)[e]]
                       ELSE e \notin DOMAIN port_map
                 /\ DOMAIN port_map \subseteq RequestedPorts]_vars

\* a map was built for a cluster in which two instances hold the same
\* in-range port with different internal ports, and one holds a port outside
\* the range
C35_Witness ==
    \E w \in {"w1"}, u \in Instances(cluster), v \in Instances(cluster) :
        /\ outcome[w].op = "get_port_forward_map"
        /\ u < v
        /\ PortRangeFirst \in DOMAIN Ports(cluster, u) \cap DOMAIN Ports(cluster, v)
        /\ Ports(cluster, u)[PortRangeFirst] # Ports(cluster, v)[PortRangeFirst]
        /\ (PortRangeFirst - 1) \in DOMAIN Ports(cluster, v)
        /\ outcome[w].returned[1][PortRangeFirst].internal = Ports(cluster, u)[PortRangeFirst]

--------------------------------------------------------------------------
(* C36 *)

\* the wait primitives run to completion: a loop that is polling takes its
\* next turn
SpecWaitFair == SpecWait /\ WF_vars(\E delay \in Delays : WaitPoll(delay))

--------------------------------------------------------------------------
(* C37 *)

\* C37: an instance whose stored metadata has tos.suspended set is never
\* reported active by a read, whatever its permanent flag and the date it was
\* marked active; an instance that is permanent and not suspended is always
\* reported active.
C37_SuspendedNeverActive ==
    [][\A w \in {"w1"}, type \in Types :
          (/\ ReadInstanceByAccount(w, type, "ocanty", "web")
           /\ outcome'[w].raised = "")
             => LET stored == StoredMetadata(cluster, held'[w].id)
                IN  /\ stored.tos.suspended => ~held'[w].active
                    /\ (stored.permanent /\ ~stored.tos.suspended) => held'[w].active]_vars

\* a read has returned, as not active, an instance that is suspended and
\* permanent and was marked active that day
C37_Witness ==
    \E w \in {"w1"} :
        /\ pc[w] = "ready"
        /\ outcome[w].op = "read_instance_by_account"
        /\ held[w].id \in Instances(cluster)
        /\ LET stored == StoredMetadata(cluster, held[w].id)
           IN  /\ stored = held[w].metadata
               /\ stored.tos.suspended
               /\ stored.permanent
               /\ stored.inactivity.marked_active_at = today
        /\ ~held[w].active

--------------------------------------------------------------------------
(* C38 *)

\* two callers create the instance web of one account, of either kind, with
\* no fault of the environment
SameNameInputs ==
    [NoFault EXCEPT !.hostnames = {"web"}, !.macs = {1}, !.orders = {"sorted"},
                    !.locked = {FALSE}, !.late = {FALSE}, !.chains = {"set"}]

NextSameName ==
    \E w \in Workers :
        \/ CreateCommon(w, SameNameInputs)
        \/ CreateContainer(w, SameNameInputs)
        \/ CreateVm(w, SameNameInputs)

SpecSameName == Init /\ [][NextSameName]_vars

\* C38: when two create_instance calls for the same kind, account and
\* hostname run concurrently, both passing the existence check before either
\* creates its object, at most one object of the cluster is named with that
\* FQDN once both calls have finished; for VMs this covers two stubs with
\* distinct names and reassigned ids that are both renamed to the FQDN.
C38_OneObjectPerFqdn ==
    (\A w \in Workers : pc[w] = "idle")
       => \A type \in Types :
             Cardinality({v \in ClusterResources(cluster) :
                             cluster[v].name
                                = GetInstanceFqdnForUsername(type, "ocanty", "web")}) <= 1

--------------------------------------------------------------------------
(* C39 *)

\* a vhost whose address lookup fails: validate_domain raises on it, and so
\* does every read of an instance that holds it
UnresolvedVhost == "nowhere.example.com"

NextOmitted ==
    \E w \in {"w1"} :
        \/ CreateCommon(w, PlainInputs)
        \/ CreateContainer(w, PlainInputs)
        \/ ReadAny(w)
        \/ AddInstanceVhost(w, UnresolvedVhost, VHostOptions(80, FALSE))
        \/ \E internal \in InternalPorts : AddInstancePort(w, PortRangeFirst, internal)
        \/ GetRandomAvailableExternalPort(w)

SpecOmitted == Init /\ [][NextOmitted]_vars

\* the address _allocate_nic hands out is the primary address of no object
\* of the cluster that carries well-formed metadata
C39_AddressOfNoInstance ==
    \A w \in {"w1"} :
        (AllocatesNic(w) /\ pc'[w] = "create_post")
           => loc'[w].metadata.network.nic_allocation.addresses[1]
                 \notin {PrimaryIp(cluster, v) : v \in Instances(cluster)}

\* the port get_random_available_external_port hands out is an external
\* port of no object of the cluster that carries well-formed metadata
C39_PortOfNoInstance ==
    \A w \in {"w1"} :
        (GetRandomAvailableExternalPort(w) /\ outcome'[w].raised = "")
           => outcome'[w].returned[1]
                 \notin UNION {DOMAIN Ports(cluster, v) : v \in Instances(cluster)}

\* C39: the allocators never hand out a resource recorded in the well-formed
\* metadata of an object still present in the cluster: the primary address
\* of an instance that the bulk scan omits because reading it raises is
\* still not returned by _allocate_nic, and its external ports are still not
\* returned by get_random_available_external_port.
C39_OmittedStillHolds ==
    [][C39_AddressOfNoInstance /\ C39_PortOfNoInstance]_vars

--------------------------------------------------------------------------
(* The user-VM provider: request_vm, approve_vm, install_vm *)

\* Provision.Stage, the members the provider names
ProvisionStages == {"AwaitingApproval", "Approved", "DownloadImage", "Installed", "Failed"}

\* the remark install_vm makes when the download step fails
DownloadRemark == "Could not download image"

\* how an operation of the provider ends: the caller goes on at pc
UserVmEnds(u, op, raised, next) == [u EXCEPT !.op = op, !.raised = raised, !.pc = next]

\* write_out_metadata: the description of the VM becomes the caller's metadata
WriteOutMetadata(u, vm) == [u EXCEPT !.vm = vm, !.stored = vm]

\* request_vm: a VM that exists already is refused, a new one is stored
\* awaiting approval
RequestVm ==
    /\ uservm.pc # "installing"
    /\ uservm' =
          IF uservm.stored # NoProvision
          THEN UserVmEnds(uservm, "request_vm", "AlreadyExists", uservm.pc)
          ELSE UserVmEnds([uservm EXCEPT !.stored = [stage |-> "AwaitingApproval",
                                                     remarks |-> <<>>]],
                          "request_vm", "", uservm.pc)
    /\ UNCHANGED <<cluster, pc, loc, held, outcome, today, snippets, images, wait>>

\* read_by_account: the caller gets the UserVM as it is stored
ReadUserVm ==
    /\ uservm.pc # "installing"
    /\ uservm' =
          IF uservm.stored = NoProvision
          THEN UserVmEnds(uservm, "read_by_account", "NotFound", "idle")
          ELSE UserVmEnds([uservm EXCEPT !.vm = uservm.stored],
                          "read_by_account", "", "ready")
    /\ UNCHANGED <<cluster, pc, loc, held, outcome, today, snippets, images, wait>>

\* approve_vm on the UserVM the caller holds
ApproveVm ==
    /\ uservm.pc = "ready"
    /\ uservm' =
          IF uservm.vm.stage = "AwaitingApproval"
          THEN UserVmEnds(WriteOutMetadata(uservm, [uservm.vm EXCEPT !.stage = "Approved"]),
                          "approve_vm", "", "ready")
          ELSE UserVmEnds(uservm, "approve_vm", "", "ready")
    /\ UNCHANGED <<cluster, pc, loc, held, outcome, today, snippets, images, wait>>

\* install_vm up to its first provision_stage: the two stage tests, then
\* stage DownloadImage and no remarks are written out
InstallVm ==
    /\ uservm.pc = "ready"
    /\ uservm' =
          IF uservm.vm.stage = "AwaitingApproval" \/ uservm.vm.stage # "Approved"
          THEN UserVmEnds(uservm, "install_vm", "Unavailable", "ready")
          ELSE UserVmEnds(WriteOutMetadata(uservm, [stage |-> "DownloadImage",
                                                    remarks |-> <<>>]),
                          "install_vm", "", "installing")
    /\ UNCHANGED <<cluster, pc, loc, held, outcome, today, snippets, images, wait>>

\* install_vm, the download step over ssh; failed: the step raises. The
\* handler writes out stage Failed with no remarks and then appends the remark
\* to the caller's object
InstallDownload(failed) ==
    /\ uservm.pc = "installing"
    /\ uservm' =
          IF failed
          THEN LET written == WriteOutMetadata(uservm, [stage |-> "Failed",
                                                        remarks |-> <<>>])
               IN  UserVmEnds([written EXCEPT !.vm.remarks = Append(@, DownloadRemark)],
                              "install_vm", "Unavailable", "ready")
          ELSE UserVmEnds(uservm, "install_vm", "", "ready")
    /\ UNCHANGED <<cluster, pc, loc, held, outcome, today, snippets, images, wait>>

\* the description of the VM is edited by hand to another stage
ProvisionEdited(stage) ==
    /\ uservm.stored # NoProvision
    /\ uservm.stored.stage # stage
    /\ uservm' = [uservm EXCEPT !.stored.stage = stage]
    /\ UNCHANGED <<cluster, pc, loc, held, outcome, today, snippets, images, wait>>

NextUserVm ==
    \/ RequestVm
    \/ ReadUserVm
    \/ ApproveVm
    \/ InstallVm
    \/ \E failed \in BOOLEAN : InstallDownload(failed)
    \/ \E stage \in ProvisionStages : ProvisionEdited(stage)

SpecUserVm == Init /\ [][NextUserVm]_vars

--------------------------------------------------------------------------
(* C40 *)

\* approve_vm and the stage tests of install_vm: approve_vm writes stage
\* Approved for a UserVM awaiting approval and writes nothing otherwise;
\* install_vm goes on only from Approved and otherwise raises
\* ResourceUnavailable with the stored metadata as it was
C40_StageOrder ==
    /\ ApproveVm =>
          IF uservm.vm.stage = "AwaitingApproval"
          THEN uservm'.stored = [uservm.vm EXCEPT !.stage = "Approved"]
          ELSE uservm'.stored = uservm.stored /\ uservm'.vm = uservm.vm
    /\ InstallVm =>
          IF uservm.vm.stage = "Approved"
          THEN uservm'.pc = "installing" /\ uservm'.raised = ""
          ELSE /\ uservm'.raised = "Unavailable"
               /\ uservm'.pc = "ready"
               /\ uservm'.stored = uservm.stored

\* C40: in the user-VM provider approve_vm changes the stage only from
\* AwaitingApproval to Approved and otherwise writes nothing; install_vm
\* proceeds only from Approved, raising ResourceUnavailable and leaving the
\* stored metadata unchanged from every other stage; and when an install step
\* fails, the stored metadata ends with stage Failed together with the remark
\* that describes the failure.
C40_ProvisionStages ==
    [][/\ C40_StageOrder
       /\ InstallDownload(TRUE) =>
             /\ uservm'.raised = "Unavailable"
             /\ uservm'.stored.stage = "Failed"
             /\ \E i \in 1..Len(uservm'.stored.remarks) :
                   uservm'.stored.remarks[i] = DownloadRemark]_vars

====
